---- MODULE Spec2Model ----
(***************************************************************************)
(* A model of the annotation engine (core/client/annot.c) and of the       *)
(* memory-trace tracer (tracer.cpp) of DynamoRIO.                          *)
(*                                                                         *)
(* Four state machines share the module:                                   *)
(*   SpecAnnot    - the handler registry, annot_match and the              *)
(*                  module-unload sweep;                                   *)
(*   SpecDispatch - Valgrind registration and handle_vg_annotation;        *)
(*   SpecVg     - match_valgrind_pattern applied to a basic block;         *)
(*   SpecTracer - the per-thread trace buffer: thread init, block          *)
(*                execution, drain (memtrace), pre-syscall, fork, exit.    *)
(* Each specification leaves the variables of the others unchanged.        *)
(***************************************************************************)
EXTENDS Integers, Sequences, FiniteSets, TLC

VARIABLES
    handlers,       \* annot.c:13  the handler hashtable, in iteration order
    vg_handlers,    \* annot.c:16  Valgrind handlers indexed by request id
    mcontext,       \* the integer machine context of the dispatching thread
    first_reg,      \* history: per address, the first registration's arguments
    first_vg,       \* history: per request id, the first registered callback
    last,           \* history: the last annotation operation and its outcome
    x64,            \* whether the build is the X64 one (annot.c:21)
    vg_bb,          \* the basic block handed to match_valgrind_pattern
    vg_ret,         \* what match_valgrind_pattern returned ("none": not called)
    vg_call,        \* history: the block and the instruction of the call
    opts,           \* the build and the options: offline, handoff_buf, ARM
    op_max_trace_size, \* the -max_trace_size option (0: no cap)
    proc,           \* "running", or how the process ended
    status,         \* per thread: "none", "live", "syscall", "fork", ...
    data,           \* per thread: per_thread_t (part_000:98-112)
    buf_ptr,        \* per thread: BUF_PTR as an entry offset from buf_base
    bufs,           \* the buffers dr_raw_mem_alloc has handed out
    tlast,          \* history: per thread, the last handler and its drain
    dopts,          \* the entry-level drain: offline, physical translation
    dth,            \* per thread: the entries in its buffer, emitted, written
    lastw,          \* history: the last write to the pipe or file, and by whom
    l0,             \* the level-0 filter of one thread: caches, last_app_pc
    lk,             \* per thread: the operation for which it holds the registry
                    \* lock, and the mode
    blk             \* the basic block being instrumented, and its entries

annotVars == <<handlers, vg_handlers, mcontext, first_reg, first_vg, last>>

vgVars == <<x64, vg_bb, vg_ret, vg_call>>

tracerVars == <<opts, op_max_trace_size, proc, status, data, buf_ptr, bufs, tlast>>

drainVars == <<dopts, dth, lastw, l0, lk, blk>>

vars == <<annotVars, vgVars, tracerVars, drainVars>>

(***************************************************************************)
(* Bounds of the model                                                     *)
(***************************************************************************)
MaxPC == 3          \* annotation addresses are 1..MaxPC
MaxBB == 5          \* instructions of a basic block before the exchange
MAX_NUM_ENTRIES == 4   \* part_000:87 has 4096 entries per buffer
MaxBuffers == 3        \* buffers dr_raw_mem_alloc can hand out before it fails
MaxBytesWritten == 8   \* a thread stops running blocks past this bytes_written
MaxEmitted == 5        \* entries a thread emits in the entry-level drain
AtomicWriteSize == 3   \* ipc_pipe.get_atomic_write_size(), in entries

PCs == 1..MaxPC
Addrs == 0..(MaxPC + 1)             \* module bounds
Callbacks == {"cb1", "cb2"}         \* client callbacks
Results == {0, 1}                   \* default results of a request block
ReturnValues == {1}                 \* return values of return-value handlers
\* The (callback, save_fpstate, operand descriptors) of the call registrations.
CallRegs == {<<"cb1", FALSE, <<>>>>, <<"cb2", TRUE, <<"XAX">>>>}

(***************************************************************************)
(* Handlers (annotation_handler_t)                                         *)
(***************************************************************************)
NULL == [type |-> "NULL"]

VG_ID__MAKE_MEM_DEFINED_IF_ADDRESSABLE == 0
VG_ID__LAST == 1
VgIds == 0..(VG_ID__LAST - 1)

VG_USERREQ__MAKE_MEM_DEFINED_IF_ADDRESSABLE == "VG_USERREQ__MAKE_MEM_DEFINED_IF_ADDRESSABLE"
Requests == {VG_USERREQ__MAKE_MEM_DEFINED_IF_ADDRESSABLE,
             "VG_USERREQ__MALLOCLIKE_BLOCK", "VG_USERREQ__RUNNING_ON_VALGRIND"}

(***************************************************************************)
(* The tracer before any thread exists (part_000:98-112, 1331-1334)        *)
(***************************************************************************)
Threads == {"t1"}
\* The threads of the two-thread machine SpecCap.
AllThreads == {"t1", "t2"}
BufIds == 1..MaxBuffers

\* Sizes in entries: instru->sizeof_entry() is the unit (part_000:1331-1334).
trace_buf_size == MAX_NUM_ENTRIES
redzone_size == MAX_NUM_ENTRIES
max_buf_size == trace_buf_size + redzone_size
BUF_HDR_SLOTS == 1
buf_hdr_slots_size == BUF_HDR_SLOTS

\* memset(data, 0, sizeof(*data)) at part_000:1080.
ZeroData ==
    [buf_base |-> 0, reserve_buf |-> 0, num_refs |-> 0, bytes_written |-> 0,
     init_header_size |-> 0, num_buffers |-> 0]

\* A buffer: who holds it, thwm the end of the entries written into its trace
\* region since it was last zeroed, dirty the end of those written into its
\* redzone since it was last painted, hdr0 whether slot 0 holds a header.
NoBuf == [state |-> "unalloc", thwm |-> 0, dirty |-> 0, hdr0 |-> FALSE]
NoEvent ==
    [op |-> "none", drain |-> "none", rz |-> TRUE, hdr |-> TRUE, short |-> FALSE,
     chk |-> "none"]

\* A thread the entry-level drain has not initialised, and no write yet.
NoDrain ==
    [buf |-> <<>>, emitted |-> <<>>, written |-> <<>>, pend |-> <<>>,
     stat |-> "none", num_refs |-> 0]
NoWrite == [by |-> "none", data |-> <<>>]

\* A thread without filter caches (-L0_filter off): held is the history of
\* the lines a miss stored and no later miss to the same index replaced.
NoFilter ==
    [on |-> FALSE, mask |-> [dcache |-> 0, icache |-> 0],
     cache |-> [dcache |-> <<>>, icache |-> <<>>],
     held |-> [dcache |-> {}, icache |-> {}],
     size |-> [dcache |-> 0, icache |-> 0],
     alloc |-> [dcache |-> 0, icache |-> 0],
     freed |-> [dcache |-> 0, icache |-> 0],
     last_app_pc |-> 0, ptr |-> 0,
     last |-> [cache |-> "none", line |-> 0, entry |-> FALSE]]

DrainIdle ==
    /\ dopts = [offline |-> FALSE, use_physical |-> FALSE]
    /\ dth = [t \in AllThreads |-> NoDrain]
    /\ lastw = NoWrite
    /\ l0 = NoFilter
    /\ lk = [t \in AllThreads |-> [op |-> "none", mode |-> "none"]]
    /\ blk = [bb |-> <<>>, i |-> 1]

TracerIdle ==
    /\ opts = [offline |-> FALSE, handoff |-> FALSE, arm |-> FALSE]
    /\ op_max_trace_size = 0
    /\ proc = "running"
    /\ status = [t \in AllThreads |-> "none"]
    /\ data = [t \in AllThreads |-> ZeroData]
    /\ buf_ptr = [t \in AllThreads |-> 0]
    /\ bufs = [b \in BufIds |-> NoBuf]
    /\ tlast = [t \in AllThreads |-> NoEvent]

KEY(addr) == addr

(***************************************************************************)
(* The generic hashtable (core/hashtable.h): a keyed table that is         *)
(* iterated by position and allows removal during the iteration.           *)
(***************************************************************************)
generic_hash_lookup(table, key) ==
    IF \E i \in 1..Len(table) : table[i].key = key
    THEN table[CHOOSE i \in 1..Len(table) : table[i].key = key].payload
    ELSE NULL

\* The entry lands at the position its hash gives it: any position.
generic_hash_add(table, pos, key, payload) ==
    SubSeq(table, 1, pos - 1) \o <<[key |-> key, payload |-> payload]>>
        \o SubSeq(table, pos, Len(table))

\* Returns the next cursor (-1 at the end) and the entry found there.
generic_hash_iterate_next(table, iter) ==
    IF iter >= Len(table)
    THEN [iter |-> -1, key |-> 0, payload |-> NULL]
    ELSE [iter |-> iter + 1, key |-> table[iter + 1].key,
          payload |-> table[iter + 1].payload]

\* Removes the entry the cursor stands on (freeing its payload) and returns
\* the cursor from which the iteration continues without skipping an entry.
generic_hash_iterate_remove(table, iter, key) ==
    [iter |-> iter - 1,
     table |-> SubSeq(table, 1, iter - 1) \o SubSeq(table, iter + 1, Len(table))]

(***************************************************************************)
(* Registration (annot.c:92-171)                                           *)
(***************************************************************************)
NoOp == [op |-> "none", key |-> 0, lock |-> "none", ncalls |-> 0, ok |-> TRUE,
         ret |-> <<>>]

CallHandler(func, callback, save_fpstate, args) ==
    [type |-> "ANNOT_HANDLER_CALL", key |-> func, instrumentation |-> callback,
     save_fpstate |-> save_fpstate, num_args |-> Len(args), args |-> args,
     next_handler |-> NULL]

ReturnHandler(func, return_value) ==
    [type |-> "ANNOT_HANDLER_RETURN_VALUE", key |-> func,
     instrumentation |-> return_value,
     save_fpstate |-> FALSE, num_args |-> 0, args |-> <<>>,
     next_handler |-> NULL]

ValgrindHandler(request_id, callback) ==
    [type |-> "ANNOT_HANDLER_VALGRIND", key |-> request_id,
     instrumentation |-> callback,
     save_fpstate |-> FALSE, num_args |-> 0, args |-> <<>>,
     next_handler |-> NULL]

\* The arguments of a registration, as the history variable keeps them.
RegArgs(type, func, instrumentation, save_fpstate, args) ==
    [type |-> type, key |-> func, instrumentation |-> instrumentation,
     save_fpstate |-> save_fpstate, args |-> args]

NoteFirst(func, regargs) ==
    first_reg' = IF first_reg[func] = NULL
                 THEN [first_reg EXCEPT ![func] = regargs]
                 ELSE first_reg

\* Mutant of CallTakesEffect: a duplicate registration replaces the handler.
CallTakesEffectAlways(handler) == TRUE

\* annot.c:100: a call registration takes effect only when no handler is
\* stored yet for the address.
CallTakesEffect(handler) == handler = NULL

\* Mutant of ReturnTakesEffect: a return-value registration is dropped.
ReturnTakesEffectNever(handler) == FALSE

\* annot.c:134: likewise for a return-value registration.
ReturnTakesEffect(handler) == handler = NULL

\* Mutant of ValgrindTakesEffect: a duplicate registration replaces the handler.
ValgrindTakesEffectAlways(handler) == TRUE

\* annot.c:158: likewise for a Valgrind registration.
ValgrindTakesEffect(handler) == handler = NULL

annot_register_call(func, callback, save_fpstate, args) ==
    /\ LET handler == generic_hash_lookup(handlers, KEY(func)) IN
         IF CallTakesEffect(handler)
         THEN \E pos \in 1..(Len(handlers) + 1) :
                handlers' = generic_hash_add(handlers, pos, KEY(func),
                                CallHandler(func, callback, save_fpstate, args))
         ELSE handlers' = handlers
    /\ NoteFirst(func, RegArgs("ANNOT_HANDLER_CALL", func, callback,
                               save_fpstate, args))
    /\ last' = [NoOp EXCEPT !.op = "annot_register_call", !.key = func,
                            !.lock = "write"]
    /\ UNCHANGED <<vg_handlers, mcontext, first_vg, vgVars, tracerVars, drainVars>>

annot_register_return(func, return_value) ==
    /\ LET handler == generic_hash_lookup(handlers, KEY(func)) IN
         IF ReturnTakesEffect(handler)
         THEN \E pos \in 1..(Len(handlers) + 1) :
                handlers' = generic_hash_add(handlers, pos, KEY(func),
                                ReturnHandler(func, return_value))
         ELSE handlers' = handlers
    /\ NoteFirst(func, RegArgs("ANNOT_HANDLER_RETURN_VALUE", func, return_value,
                               FALSE, <<>>))
    /\ last' = [NoOp EXCEPT !.op = "annot_register_return", !.key = func,
                            !.lock = "write"]
    /\ UNCHANGED <<vg_handlers, mcontext, first_vg, vgVars, tracerVars, drainVars>>

\* annot.c:153: request ids at or above VG_ID__LAST are dropped.
ValidVgId(request_id) == ~(request_id >= VG_ID__LAST)

annot_register_valgrind(request_id, annotation_callback) ==
    /\ IF ~ValidVgId(request_id)
       THEN /\ UNCHANGED vg_handlers
            /\ last' = [NoOp EXCEPT !.op = "annot_register_valgrind",
                                    !.key = request_id,
                                    !.ret = annotation_callback]
       ELSE /\ LET handler == vg_handlers[request_id] IN
                 IF ValgrindTakesEffect(handler)
                 THEN vg_handlers' =
                        [vg_handlers EXCEPT ![request_id] =
                            ValgrindHandler(request_id, annotation_callback)]
                 ELSE vg_handlers' = vg_handlers
            /\ last' = [NoOp EXCEPT !.op = "annot_register_valgrind",
                                    !.key = request_id, !.lock = "write",
                                    !.ret = annotation_callback]
    /\ first_vg' = IF request_id \in DOMAIN first_vg /\ first_vg[request_id] = "none"
                   THEN [first_vg EXCEPT ![request_id] = annotation_callback]
                   ELSE first_vg
    /\ UNCHANGED <<handlers, mcontext, first_reg, vgVars, tracerVars, drainVars>>

(***************************************************************************)
(* annot_match (annot.c:173-206)                                           *)
(***************************************************************************)
\* INSTR_CREATE_label + flags |= INSTR_ANNOTATION + note + ok_to_mangle.
AnnotationLabel(handler) ==
    [opcode |-> "OP_LABEL", annotation |-> TRUE, note |-> handler,
     ok_to_mangle |-> FALSE, prev |-> 0, next |-> 0]

\* The while loop of annot_match: one label per chain link, appended to the
\* list built so far and linked to its predecessor in both directions.
RECURSIVE MatchChain(_, _)
MatchChain(handler, list) ==
    IF handler = NULL
    THEN list
    ELSE LET call == AnnotationLabel(handler)
             n == Len(list)
         IN  MatchChain(handler.next_handler,
                 IF n = 0
                 THEN <<call>>
                 ELSE [list EXCEPT ![n].next = n + 1]
                          \o <<[call EXCEPT !.prev = n]>>)

\* Mutant of MatchedInstr: every instruction is looked up.
MatchedInstrAny(instr) == TRUE

\* annot.c:178: only direct calls are looked up.
MatchedInstr(instr) == instr.is_call_direct

annot_match_list(table, instr) ==
    IF MatchedInstr(instr)
    THEN MatchChain(generic_hash_lookup(table, instr.target), <<>>)
    ELSE <<>>

annot_match(instr) ==
    /\ last' = [NoOp EXCEPT !.op = "annot_match", !.key = instr.target,
                            !.ok = instr.is_call_direct,
                            !.lock = IF instr.is_call_direct THEN "read"
                                     ELSE "none",
                            !.ret = annot_match_list(handlers, instr)]
    /\ UNCHANGED <<handlers, vg_handlers, mcontext, first_reg, first_vg, vgVars, tracerVars, drainVars>>

(***************************************************************************)
(* The Valgrind dispatcher (annot.c:288-318, 361-370)                      *)
(***************************************************************************)
\* Mutant of lookup_valgrind_request: every request number is taken as known.
lookup_valgrind_request_any(request) == VG_ID__MAKE_MEM_DEFINED_IF_ADDRESSABLE

lookup_valgrind_request(request) ==
    IF request = VG_USERREQ__MAKE_MEM_DEFINED_IF_ADDRESSABLE
    THEN VG_ID__MAKE_MEM_DEFINED_IF_ADDRESSABLE
    ELSE VG_ID__LAST

\* The handler the dispatcher invokes for a request id, NULL for none.
DispatchHandler(vg, request_id) ==
    IF request_id < VG_ID__LAST THEN vg[request_id] ELSE NULL

\* Mutant of SafeReadFailed: the result of safe_read is ignored.
SafeReadIgnored(readable) == FALSE

\* annot.c:298: the dispatcher gives up when safe_read fails.
SafeReadFailed(readable) == ~readable

\* readable: whether safe_read of the request block succeeds; request: the
\* block read (what the stack held, when the read failed); cb_ret: the value
\* the client callback returns when it is invoked.
handle_vg_annotation(readable, request, cb_ret) ==
    IF SafeReadFailed(readable)
    THEN /\ last' = [NoOp EXCEPT !.op = "handle_vg_annotation", !.ok = readable,
                                 !.key = request, !.ret = cb_ret]
         /\ UNCHANGED <<handlers, vg_handlers, mcontext, first_reg, first_vg, vgVars, tracerVars, drainVars>>
    ELSE LET request_id == lookup_valgrind_request(request.request)
             handler == DispatchHandler(vg_handlers, request_id)
             result == IF handler # NULL THEN cb_ret ELSE request.default_result
         IN  /\ mcontext' = [mcontext EXCEPT !.xbx = result]
             /\ last' = [NoOp EXCEPT !.op = "handle_vg_annotation",
                             !.ok = readable, !.key = request, !.ret = cb_ret,
                             !.lock = IF request_id < VG_ID__LAST THEN "read"
                                      ELSE "none",
                             !.ncalls = IF handler # NULL THEN 1 ELSE 0]
             /\ UNCHANGED <<handlers, vg_handlers, first_reg, first_vg, vgVars, tracerVars, drainVars>>

(***************************************************************************)
(* The module-unload sweep (annot.c:329-346)                               *)
(***************************************************************************)
\* Mutant of InSweepRange: the module's bounds are swept too.
InSweepRangeInclusive(key, start, end) == (key >= start) /\ (key <= end)

\* annot.c:341: the keys strictly between the module's bounds.
InSweepRange(key, start, end) == (key > start) /\ (key < end)

TableKeys(table) == {table[i].key : i \in 1..Len(table)}

RECURSIVE SweepLoop(_, _, _, _)
SweepLoop(table, iter, start, end) ==
    LET nxt == generic_hash_iterate_next(table, iter) IN
    IF nxt.iter < 0
    THEN table
    ELSE IF InSweepRange(nxt.key, start, end)
         THEN LET r == generic_hash_iterate_remove(table, nxt.iter, nxt.key)
              IN  SweepLoop(r.table, r.iter, start, end)
         ELSE SweepLoop(table, nxt.iter, start, end)

event_module_unload(start, end) ==
    /\ handlers' = SweepLoop(handlers, 0, start, end)
    /\ first_reg' = [f \in PCs |->
                        IF start < f /\ f < end THEN NULL ELSE first_reg[f]]
    /\ last' = [NoOp EXCEPT !.op = "event_module_unload",
                            !.key = <<start, end>>, !.lock = "write",
                            !.ret = TableKeys(handlers) \ TableKeys(handlers')]
    /\ UNCHANGED <<vg_handlers, mcontext, first_vg, vgVars, tracerVars, drainVars>>

\* annot.c:320-327: target is what dr_get_proc_address finds for
\* dynamorio_annotate_running_on_dynamorio in the loaded module, 0 (NULL)
\* when the module does not export it; (void *) true is 1.
event_module_load(target) ==
    /\ target # 0
    /\ annot_register_return(target, 1)

(***************************************************************************)
(* The annotation engine as state machines: the handler table under        *)
(* registrations, matches and unloads (SpecAnnot), and the Valgrind        *)
(* handlers under registrations and dispatches (SpecDispatch).             *)
(***************************************************************************)
Instrs == [is_call_direct : BOOLEAN, target : PCs]
RequestBlocks == [request : Requests, default_result : Results]

InitAnnot ==
    /\ handlers = <<>>
    /\ vg_handlers = [i \in VgIds |-> NULL]
    /\ mcontext = [xax |-> 0, xbx |-> 0]
    /\ first_reg = [f \in PCs |-> NULL]
    /\ first_vg = [i \in VgIds |-> "none"]
    /\ last = NoOp
    /\ x64 = FALSE
    /\ vg_bb = <<>>
    /\ vg_ret = "none"
    /\ vg_call = <<>>
    /\ TracerIdle
    /\ DrainIdle

NextAnnot ==
    \/ \E f \in PCs, r \in CallRegs : annot_register_call(f, r[1], r[2], r[3])
    \/ \E f \in PCs, v \in ReturnValues : annot_register_return(f, v)
    \/ \E id \in VgIds : annot_register_valgrind(id, "cb1")
    \/ \E instr \in Instrs : annot_match(instr)
    \/ \E target \in {0} \cup PCs : event_module_load(target)
    \/ \E start \in Addrs, end \in Addrs :
            start < end /\ event_module_unload(start, end)

SpecAnnot == InitAnnot /\ [][NextAnnot]_vars

InitDispatch ==
    /\ handlers = <<>>
    /\ vg_handlers = [i \in VgIds |-> NULL]
    /\ mcontext \in [xax : {0}, xbx : {0, 1, 2}]
    /\ first_reg = [f \in PCs |-> NULL]
    /\ first_vg = [i \in VgIds |-> "none"]
    /\ last = NoOp
    /\ x64 = FALSE
    /\ vg_bb = <<>>
    /\ vg_ret = "none"
    /\ vg_call = <<>>
    /\ TracerIdle
    /\ DrainIdle

NextDispatch ==
    \/ \E id \in 0..(VG_ID__LAST + 1), cb \in Callbacks :
            annot_register_valgrind(id, cb)
    \/ \E readable \in BOOLEAN, request \in RequestBlocks, ret \in {3, 4} :
            handle_vg_annotation(readable, request, ret)

SpecDispatch == InitDispatch /\ [][NextDispatch]_vars

(***************************************************************************)
(* match_valgrind_pattern (annot.c:18-39, 208-284)                         *)
(***************************************************************************)
VALGRIND_ANNOTATION_ROL_COUNT == 4

\* Mutant of expected_rol_immeds: the immediates in the reverse order.
expected_rol_immeds_reversed ==
    IF x64 THEN <<51, 61, 13, 3>> ELSE <<19, 29, 13, 3>>

\* annot.c:21-37 (index i of the C array is index i + 1 here).
expected_rol_immeds ==
    IF x64 THEN <<3, 13, 61, 51>> ELSE <<3, 13, 29, 19>>

opnd_create_reg(r) == [kind |-> "reg", reg |-> r]
opnd_create_immed_int(v) == [kind |-> "immed", val |-> v]
opnd_same(a, b) == a = b
opnd_is_immed(o) == o.kind = "immed"
instr_get_src(instr, i) == instr.srcs[i + 1]
instr_get_dst(instr, i) == instr.dsts[i + 1]

INSTR_CREATE_rol(dst, src) ==
    [opcode |-> "OP_rol", srcs |-> <<src, dst>>, dsts |-> <<dst>>, app_pc |-> 0]
INSTR_CREATE_mov(dst, src) ==
    [opcode |-> "OP_mov_ld", srcs |-> <<src>>, dsts |-> <<dst>>, app_pc |-> 0]
INSTR_CREATE_xchg(dst, src, pc) ==
    [opcode |-> "OP_xchg", srcs |-> <<src>>, dsts |-> <<dst>>, app_pc |-> pc]
\* INSTR_XL8(INSTR_CREATE_xor(dst, src), pc)
INSTR_CREATE_xor(dst, src, pc) ==
    [opcode |-> "OP_xor", srcs |-> <<src, dst>>, dsts |-> <<dst>>, app_pc |-> pc]
\* What dr_insert_clean_call(bb, NULL, callee, fpstate, 1, arg) appends.
CleanCall(callee, fpstate, arg) ==
    [opcode |-> "clean_call", srcs |-> <<arg>>, dsts |-> <<>>, app_pc |-> 0,
     callee |-> callee, fpstate |-> fpstate]

\* annot.c:226-239: the walk back over the block from instr_walk (position
\* pos, 0 for a null instr_walk) for the indices i down to 0.  Reading the
\* opcode of a null instr_walk is a null dereference.
RECURSIVE RolWalk(_, _, _)
RolWalk(bb, pos, i) ==
    IF i < 0 THEN "match"
    ELSE IF pos = 0 THEN "null_deref"
    ELSE IF bb[pos].opcode # "OP_rol" THEN "no_match"
    ELSE LET src == instr_get_src(bb[pos], 0)
             dst == instr_get_dst(bb[pos], 0)
         IN  IF ~opnd_is_immed(src) \/ src.val # expected_rol_immeds[i + 1]
             THEN "no_match"
             ELSE IF ~opnd_same(dst, opnd_create_reg("DR_REG_XDI"))
             THEN "no_match"
             ELSE RolWalk(bb, pos - 1, i - 1)

\* annot.c:220: both operands of the exchange are XBX.
XchgIsSignature(instr) ==
    /\ opnd_same(instr_get_src(instr, 0), opnd_create_reg("DR_REG_XBX"))
    /\ opnd_same(instr_get_dst(instr, 0), opnd_create_reg("DR_REG_XBX"))

\* annot.c:262-268: the last n instructions removed, from the last one back.
RECURSIVE RemoveLast(_, _)
RemoveLast(bb, n) ==
    IF n = 0 THEN bb ELSE RemoveLast(SubSeq(bb, 1, Len(bb) - 1), n - 1)

\* annot.c:258-283: what a matched block becomes.
RewriteMatched(bb, instr) ==
    LET xchg_xl8 == instr.app_pc IN
    RemoveLast(bb, VALGRIND_ANNOTATION_ROL_COUNT)
        \o <<INSTR_CREATE_xor(opnd_create_reg("DR_REG_XBX"),
                              opnd_create_reg("DR_REG_XBX"), xchg_xl8),
             CleanCall("handle_vg_annotation", FALSE,
                       opnd_create_reg("DR_REG_XAX"))>>

\* The outcomes of the call: the value returned and the block left, or a
\* fault.  The null dereference is undefined behaviour: the read faults, or
\* it yields bytes that are not a rotate and the function returns false.
match_valgrind_pattern(bb, instr) ==
    IF ~XchgIsSignature(instr)
    THEN {[ret |-> "false", bb |-> bb]}
    ELSE LET walk == RolWalk(bb, Len(bb), VALGRIND_ANNOTATION_ROL_COUNT - 1) IN
         IF walk = "no_match" THEN {[ret |-> "false", bb |-> bb]}
         ELSE IF walk = "null_deref"
              THEN {[ret |-> "fault", bb |-> bb], [ret |-> "false", bb |-> bb]}
              ELSE {[ret |-> "true", bb |-> RewriteMatched(bb, instr)]}

MatchValgrind(instr) ==
    /\ vg_ret = "none"
    /\ \E out \in match_valgrind_pattern(vg_bb, instr) :
          /\ vg_ret' = out.ret
          /\ vg_bb' = out.bb
    /\ vg_call' = [bb |-> vg_bb, instr |-> instr]
    /\ UNCHANGED <<annotVars, x64, tracerVars, drainVars>>

\* The instructions a block is made of: the four rotates of the build, a
\* rotate by CL, a rotate of XBX and a move.
BlockInstrs ==
    {INSTR_CREATE_rol(opnd_create_reg("DR_REG_XDI"),
                      opnd_create_immed_int(expected_rol_immeds[i])) :
        i \in 1..VALGRIND_ANNOTATION_ROL_COUNT}
    \cup {INSTR_CREATE_rol(opnd_create_reg("DR_REG_XDI"), opnd_create_reg("DR_REG_CL")),
          INSTR_CREATE_rol(opnd_create_reg("DR_REG_XBX"),
                 opnd_create_immed_int(
                     expected_rol_immeds[VALGRIND_ANNOTATION_ROL_COUNT])),
          INSTR_CREATE_mov(opnd_create_reg("DR_REG_XAX"), opnd_create_reg("DR_REG_XDX"))}

Blocks == UNION {[1..n -> BlockInstrs] : n \in 0..MaxBB}

XchgInstrs ==
    {INSTR_CREATE_xchg(opnd_create_reg("DR_REG_XBX"), opnd_create_reg("DR_REG_XBX"), 7),
     INSTR_CREATE_xchg(opnd_create_reg("DR_REG_XBX"), opnd_create_reg("DR_REG_XBX"), 9),
     INSTR_CREATE_xchg(opnd_create_reg("DR_REG_XBX"), opnd_create_reg("DR_REG_XAX"), 7),
     INSTR_CREATE_xchg(opnd_create_reg("DR_REG_XAX"), opnd_create_reg("DR_REG_XBX"), 7)}

InitVg ==
    /\ handlers = <<>>
    /\ vg_handlers = [i \in VgIds |-> NULL]
    /\ mcontext = [xax |-> 0, xbx |-> 0]
    /\ first_reg = [f \in PCs |-> NULL]
    /\ first_vg = [i \in VgIds |-> "none"]
    /\ last = NoOp
    /\ x64 \in BOOLEAN
    /\ vg_bb \in Blocks
    /\ vg_ret = "none"
    /\ vg_call = <<>>
    /\ TracerIdle
    /\ DrainIdle

NextVg == \E instr \in XchgInstrs : MatchValgrind(instr)

SpecVg == InitVg /\ [][NextVg]_vars

(***************************************************************************)
(* The tracer: per-thread buffer, drain and lifecycle (part_000)           *)
(***************************************************************************)
Max(a, b) == IF a >= b THEN a ELSE b
Min(a, b) == IF a <= b THEN a ELSE b

\* Entries the instru_t appenders write (their code is not in src/).
ThreadHeaderEntries == 1    \* append_thread_header
TidEntries == 1             \* append_tid
PidEntries == 1             \* append_pid
ThreadExitEntries == 1      \* append_thread_exit
IflushEntries == {1, 2}     \* append_iflush

\* The values of -max_trace_size, in entries.
MaxTraceSizes == {0, trace_buf_size}

\* The state one handler works on: the thread's per_thread_t and BUF_PTR,
\* the buffers, the size cap, the process, and what its drain did.
Mach(t) ==
    [d |-> data[t], ptr |-> buf_ptr[t], bufs |-> bufs,
     max |-> op_max_trace_size, proc |-> proc, drain |-> "none", rz |-> TRUE,
     hdr |-> TRUE, short |-> FALSE, chk |-> "none"]

\* Every byte of the redzone of buffer b is nonzero: the sentinel is where
\* the thread painted it in a buffer of its own; the bytes of a buffer that
\* was handed off are what its owner made of them.
RedzoneNonzero(bs, b) ==
    IF b # 0 /\ bs[b].state = "tracer" THEN {bs[b].dirty = 0} ELSE {TRUE, FALSE}

\* dr_raw_mem_alloc: NULL, or zeroed memory never handed out before.
dr_raw_mem_alloc(bs) ==
    {0} \cup (IF \E b \in DOMAIN bs : bs[b].state = "unalloc"
              THEN {CHOOSE b \in DOMAIN bs :
                       /\ bs[b].state = "unalloc"
                       /\ \A c \in DOMAIN bs : bs[c].state = "unalloc" => b <= c}
              ELSE {})

\* A zeroed buffer whose redzone holds the sentinel (part_000:246-248).
FreshBuffer == [state |-> "tracer", thwm |-> 0, dirty |-> 0, hdr0 |-> FALSE]

\* A fallback that leaves the size cap as the user set it.
FallbackCapKept(m) == m.max

\* part_000:243: op_max_trace_size.set_value(data->bytes_written - 1).
FallbackCap(m) == m.d.bytes_written - 1

\* Mutant of create_buffer: every failure of the primary allocation aborts,
\* reserve buffer or not.
create_buffer_abort(m) ==
    UNION {
        IF a = 0
        THEN {[m EXCEPT !.d.buf_base = 0, !.proc = "fatal",
                        !.drain = "fatal_oom", !.rz = FALSE]}
        ELSE LET m1 == [m EXCEPT !.d.buf_base = a,
                                 !.bufs[a] = FreshBuffer,
                                 !.d.num_buffers = @ + 1,
                                 !.rz = TRUE]
             IN  IF m1.d.num_buffers = 2
                 THEN {[m1 EXCEPT !.d.reserve_buf = r,
                                  !.bufs = IF r = 0 THEN @
                                           ELSE [@ EXCEPT ![r] = FreshBuffer]] :
                          r \in dr_raw_mem_alloc(m1.bufs)}
                 ELSE {m1}
        : a \in dr_raw_mem_alloc(m.bufs)}

\* part_000:229-262.  The outcomes, one per result of the allocations.
create_buffer(m) ==
    UNION {
        IF a = 0
        THEN IF m.d.reserve_buf = 0
             THEN {[m EXCEPT !.d.buf_base = 0, !.proc = "fatal",
                             !.drain = "fatal_oom", !.rz = FALSE]}
             ELSE {[m EXCEPT !.d.buf_base = m.d.reserve_buf,
                             !.max = FallbackCap(m),
                             !.drain = "fallback",
                             !.rz = rz] :
                      rz \in RedzoneNonzero(m.bufs, m.d.reserve_buf)}
        ELSE LET m1 == [m EXCEPT !.d.buf_base = a,
                                 !.bufs[a] = FreshBuffer,
                                 !.d.num_buffers = @ + 1,
                                 !.rz = TRUE]
             IN  IF m1.d.num_buffers = 2
                 THEN {[m1 EXCEPT !.d.reserve_buf = r,
                                  !.bufs = IF r = 0 THEN @
                                           ELSE [@ EXCEPT ![r] = FreshBuffer]] :
                          r \in dr_raw_mem_alloc(m1.bufs)}
                 ELSE {m1}
        : a \in dr_raw_mem_alloc(m.bufs)}

\* A buffer in the hands of the handoff callback: its owner may write it,
\* move it to another thread and release it, so its content is not known.
HandedOff == [state |-> "handoff", thwm |-> 0, dirty |-> 0, hdr0 |-> FALSE]

\* What write_trace_data does to the buffer (part_000:264-296): offline with
\* a handoff callback the buffer becomes the callback's, and a failed handoff
\* or a short write to the file is FATAL.  Online a short write to the pipe
\* fails a DR_ASSERT (part_000:270-271): a debug build aborts, and a release
\* build, where the assertion is no code, goes on (short).
write_trace_data(m) ==
    IF opts.offline /\ opts.handoff
    THEN {[m EXCEPT !.bufs[m.d.buf_base] = HandedOff],
          [m EXCEPT !.proc = "fatal", !.drain = "fatal_io"]}
    ELSE IF opts.offline
    THEN {m, [m EXCEPT !.proc = "fatal", !.drain = "fatal_io"]}
    ELSE {m, [m EXCEPT !.proc = "fatal", !.drain = "fatal_io"],
          [m EXCEPT !.short = TRUE]}

\* part_000:381-383: create_buffer overwrites buf_base.  Online, where
\* write_trace_data handed nothing off, the old buffer is left allocated
\* with no pointer to it, unless it is the reserve buffer.
Abandon(m) ==
    IF m.bufs[m.d.buf_base].state = "tracer" /\ m.d.buf_base # m.d.reserve_buf
    THEN [m EXCEPT !.bufs[m.d.buf_base] =
                       [state |-> "leaked", thwm |-> 0, dirty |-> 0, hdr0 |-> FALSE]]
    ELSE m

\* part_000:389-393: memset(redzone, -1, buf_ptr - redzone) when
\* buf_ptr > redzone; the sentinel is back where entries were written.
Repaint(dirty, ptr) ==
    IF ptr > trace_buf_size /\ ptr - trace_buf_size >= dirty THEN 0 ELSE dirty

\* part_000:385-395 without the handoff: the trace region zeroed, the
\* redzone repainted.
reset_buffer(m) ==
    IF m.bufs[m.d.buf_base].state # "tracer" THEN m
    ELSE [m EXCEPT !.bufs[m.d.buf_base].thwm = 0,
                   !.bufs[m.d.buf_base].hdr0 = FALSE,
                   !.bufs[m.d.buf_base].dirty = Repaint(@, m.ptr)]

\* A drain that leaves BUF_PTR where it was.
RewindNot(m) == m.ptr

\* part_000:395.
Rewind(m) == buf_hdr_slots_size

\* part_000:311-320: the first buffer of an offline thread keeps the thread
\* header init_thread_in_process wrote; any other gets a unit header in
\* slot 0.
AppendsUnitHeader(m) == ~(m.d.num_refs = 0 /\ opts.offline)

\* Slot 0 of the buffer holds a header entry when the drain writes it.
SlotZeroHeader(m) ==
    IF AppendsUnitHeader(m) THEN {TRUE}
    ELSE IF m.bufs[m.d.buf_base].state = "tracer"
         THEN {m.bufs[m.d.buf_base].hdr0} ELSE {TRUE, FALSE}

\* A drain that never looks at the size cap.
DoWriteNoCap(m, skip_size_cap) == TRUE

\* part_000:321-329.
DoWrite(m, skip_size_cap) ==
    ~(~skip_size_cap /\ m.max > 0 /\ m.d.bytes_written > m.max)

\* part_000:331-334: num_refs counts the entries past the header, in the
\* loop that only a drain that writes runs.
CountRefs(m, header_size) == m.d.num_refs + Max(0, m.ptr - header_size)

\* part_000:298-396.
memtrace(m, skip_size_cap) ==
    IF m.ptr = buf_hdr_slots_size
    THEN {[m EXCEPT !.drain = "empty"]}
    ELSE
    LET header_size == IF AppendsUnitHeader(m)
                       THEN buf_hdr_slots_size ELSE m.d.init_header_size
        do_write == DoWrite(m, skip_size_cap)
        written == IF do_write
                   THEN UNION {write_trace_data(
                                  [m EXCEPT !.d.bytes_written = @ + m.ptr,
                                            !.d.num_refs = CountRefs(m, header_size),
                                            !.hdr = h]) :
                               h \in SlotZeroHeader(m)}
                   ELSE {m}
    IN  UNION {
          IF w.proc # "running" THEN {w}
          ELSE IF do_write /\ opts.handoff
          THEN {[c EXCEPT !.ptr = IF c.proc = "running" THEN Rewind(c) ELSE @,
                          !.drain = IF c.drain = "none" THEN "handoff" ELSE @] :
                   c \in create_buffer(Abandon(w))}
          ELSE LET r == reset_buffer(w) IN
               {[r EXCEPT !.ptr = Rewind(r),
                          !.drain = IF do_write THEN "written" ELSE "suppressed",
                          !.rz = rz] :
                   rz \in RedzoneNonzero(r.bufs, r.d.buf_base)}
          : w \in written}

\* The handler named op leaves thread t in the state m.
Commit(t, m, op, st) ==
    /\ data' = [data EXCEPT ![t] = m.d]
    /\ buf_ptr' = [buf_ptr EXCEPT ![t] = m.ptr]
    /\ bufs' = m.bufs
    /\ op_max_trace_size' = m.max
    /\ proc' = m.proc
    /\ status' = [status EXCEPT ![t] = IF m.proc = "running" THEN st ELSE @]
    /\ tlast' = [tlast EXCEPT ![t] = [op |-> op, drain |-> m.drain, rz |-> m.rz,
                                       hdr |-> m.hdr, short |-> m.short,
                                       chk |-> m.chk]]
    /\ UNCHANGED <<annotVars, vgVars, opts, drainVars>>

\* Inline code or an appender writes k entries at BUF_PTR and advances it.
AppendEntries(m, k) ==
    LET end == m.ptr + k IN
    IF k = 0 THEN m
    ELSE IF m.bufs[m.d.buf_base].state # "tracer" THEN [m EXCEPT !.ptr = end]
    ELSE [m EXCEPT !.ptr = end,
                   !.bufs[m.d.buf_base].thwm = Max(@, Min(end, trace_buf_size)),
                   !.bufs[m.d.buf_base].dirty =
                        Max(@, Min(end, max_buf_size) - trace_buf_size)]

\* part_000:1004-1072.
init_thread_in_process(m) ==
    IF opts.offline
    THEN LET hdr == ThreadHeaderEntries
             m1 == [m EXCEPT !.d.init_header_size = hdr, !.ptr = 0]
             m2 == AppendEntries(m1, hdr + TidEntries + PidEntries)
         IN  {IF m2.bufs[m2.d.buf_base].state = "tracer"
              THEN [m2 EXCEPT !.bufs[m2.d.buf_base].hdr0 = TRUE] ELSE m2,
              [m EXCEPT !.proc = "fatal", !.drain = "fatal_io"]}
    ELSE {[w EXCEPT !.ptr = IF w.proc = "running" THEN buf_hdr_slots_size ELSE @,
                    !.drain = IF w.proc = "running" THEN "none" ELSE @] :
             w \in write_trace_data(m)}

\* part_000:1074-1093.
event_thread_init(t) ==
    /\ proc = "running"
    /\ status[t] = "none"
    /\ \E c \in create_buffer([Mach(t) EXCEPT !.d = ZeroData]) :
          IF c.proc # "running"
          THEN Commit(t, c, "event_thread_init", "none")
          ELSE \E m \in init_thread_in_process(c) :
                  Commit(t, [m EXCEPT !.drain = "create_buffer"],
                         "event_thread_init", "live")

\* A thread that runs application code.
Running(t) ==
    /\ proc = "running"
    /\ status[t] \in {"live", "syscall", "fork"}
    /\ data[t].bytes_written <= MaxBytesWritten

\* The word the redzone check loads at BUF_PTR is nonzero (part_000:490-493):
\* the sentinel in the redzone, zero in the zeroed trace region, and any
\* value where old entries lie, past the end of the buffer, or in memory
\* the thread does not own.
WordNonzero(m) ==
    LET b == m.bufs[m.d.buf_base] IN
    IF b.state # "tracer" \/ m.ptr >= max_buf_size THEN {TRUE, FALSE}
    ELSE IF m.ptr >= trace_buf_size
         THEN IF m.ptr - trace_buf_size >= b.dirty THEN {TRUE} ELSE {TRUE, FALSE}
         ELSE IF m.ptr >= b.thwm THEN {FALSE} ELSE {TRUE, FALSE}

\* part_000:783-809, 929-933: the redzone check and its clean call are
\* inserted at the last instruction of the block, unless the handler
\* returned before for that instruction: it is not an application
\* instruction or repeats the last PC, or it is a deferred exclusive store.
HasCleanCall(lastinstr) == lastinstr = "instrumented"

LastInstrs == {"instrumented", "skipped", "strex"}

\* A write to a buffer that was handed off faults when its owner released
\* the memory, and goes through otherwise.
Faults(m) ==
    IF m.bufs[m.d.buf_base].state = "handoff" THEN {TRUE, FALSE} ELSE {FALSE}

\* The code of one instrumented block runs: k entries are written, and the
\* redzone check of its last instruction calls clean_call (part_000:398-404,
\* 484-561, 758-940).  chk records what the check did: it skipped the call,
\* or called with BUF_PTR in the trace region or at or past the redzone.
ExecBlock(t, k, lastinstr) ==
    /\ Running(t)
    /\ lastinstr = "strex" => opts.arm
    /\ LET m0 == Mach(t)
           m1 == AppendEntries(m0, k)
       IN  \E f \in Faults(m0) :
           IF f THEN Commit(t, [m0 EXCEPT !.proc = "fault"], "block", "live")
           ELSE IF m1.ptr > max_buf_size
           THEN Commit(t, m1, "block", "overrun")
           ELSE IF ~HasCleanCall(lastinstr)
           THEN Commit(t, m1, "block", "live")
           ELSE \E nz \in WordNonzero(m1) :
                   LET mc == [m1 EXCEPT !.chk =
                                 IF ~nz THEN "skip"
                                 ELSE IF m1.ptr >= trace_buf_size
                                 THEN "call_redzone" ELSE "call_trace"]
                   IN  IF nz
                       THEN \E m2 \in memtrace(mc, FALSE) :
                               Commit(t, m2, "block", "live")
                       ELSE Commit(t, mc, "block", "live")

\* The system calls a thread makes: the number, whether end > start holds
\* for the two parameters of cacheflush, and the entries append_iflush
\* writes for the range.
Syscalls ==
    {[sysnum |-> "SYS_fork", nonempty |-> FALSE, iflush |-> 0],
     [sysnum |-> "SYS_other", nonempty |-> FALSE, iflush |-> 0],
     [sysnum |-> "SYS_cacheflush", nonempty |-> FALSE, iflush |-> 0]}
    \cup {[sysnum |-> "SYS_cacheflush", nonempty |-> TRUE, iflush |-> n] :
             n \in IflushEntries}

\* part_000:980-999.
event_pre_syscall(t, sysnum, nonempty, iflush) ==
    /\ Running(t)
    /\ status[t] = "live"
    /\ LET m0 == Mach(t)
           m1 == IF opts.arm /\ sysnum = "SYS_cacheflush" /\ nonempty
                 THEN AppendEntries(m0, iflush) ELSE m0
           st == IF sysnum = "SYS_fork" THEN "fork" ELSE "syscall"
       IN  IF m1.ptr > max_buf_size
           THEN Commit(t, m1, "event_pre_syscall", "overrun")
           ELSE IF ~opts.handoff
           THEN \E m2 \in memtrace(m1, FALSE) :
                   Commit(t, m2, "event_pre_syscall", st)
           ELSE Commit(t, m1, "event_pre_syscall", st)

\* part_000:1218-1237: the thread that forked, in the child.
fork_init(t) ==
    /\ proc = "running"
    /\ status[t] = "fork"
    /\ \E m \in init_thread_in_process([Mach(t) EXCEPT !.d.num_refs = 0]) :
          Commit(t, m, "fork_init", "live")

\* dr_raw_mem_free of the thread's buffers (part_000:1125-1127); "misfreed"
\* is a buffer freed while the handoff callback's owner holds it.
FreeBuffers(m) ==
    [m EXCEPT !.bufs = [b \in DOMAIN m.bufs |->
        IF b = m.d.buf_base \/ b = m.d.reserve_buf
        THEN [state |-> IF @[b].state = "handoff" THEN "misfreed" ELSE "freed",
              thwm |-> 0, dirty |-> 0, hdr0 |-> FALSE]
        ELSE @[b]]]

\* part_000:1095-1129.
event_thread_exit(t) ==
    /\ proc = "running"
    /\ status[t] \in {"live", "syscall", "fork"}
    /\ LET m0 == Mach(t)
           m1 == IF m0.max > 0 /\ m0.d.bytes_written > m0.max
                 THEN [m0 EXCEPT !.ptr = buf_hdr_slots_size] ELSE m0
           m2 == AppendEntries(m1, ThreadExitEntries)
       IN  IF m2.ptr > max_buf_size
           THEN Commit(t, m2, "event_thread_exit", "overrun")
           ELSE \E m3 \in memtrace(m2, TRUE) :
                   IF m3.proc # "running"
                   THEN Commit(t, m3, "event_thread_exit", "live")
                   ELSE Commit(t, FreeBuffers(m3), "event_thread_exit", "exited")

InitTracer ==
    /\ handlers = <<>>
    /\ vg_handlers = [i \in VgIds |-> NULL]
    /\ mcontext = [xax |-> 0, xbx |-> 0]
    /\ first_reg = [f \in PCs |-> NULL]
    /\ first_vg = [i \in VgIds |-> "none"]
    /\ last = NoOp
    /\ x64 = FALSE
    /\ vg_bb = <<>>
    /\ vg_ret = "none"
    /\ vg_call = <<>>
    /\ opts \in [offline : BOOLEAN, handoff : BOOLEAN, arm : BOOLEAN]
    /\ op_max_trace_size \in MaxTraceSizes
    /\ proc = "running"
    /\ status = [t \in AllThreads |-> "none"]
    /\ data = [t \in AllThreads |-> ZeroData]
    /\ buf_ptr = [t \in AllThreads |-> 0]
    /\ bufs = [b \in BufIds |-> NoBuf]
    /\ tlast = [t \in AllThreads |-> NoEvent]
    /\ DrainIdle

NextTracer ==
    \/ \E t \in Threads : event_thread_init(t)
    \/ \E t \in Threads, k \in 0..redzone_size, l \in LastInstrs :
          ExecBlock(t, k, l)
    \/ \E t \in Threads, sc \in Syscalls :
          event_pre_syscall(t, sc.sysnum, sc.nonempty, sc.iflush)
    \/ \E t \in Threads : fork_init(t)
    \/ \E t \in Threads : event_thread_exit(t)

SpecTracer == InitTracer /\ [][NextTracer]_vars

(***************************************************************************)
(* Two threads under one size cap: offline tracing with a handoff callback *)
(* and -max_trace_size of one trace buffer.  op_max_trace_size is a global *)
(* of the process (part_000:243, 321-322).                                 *)
(***************************************************************************)
InitCap ==
    /\ handlers = <<>>
    /\ vg_handlers = [i \in VgIds |-> NULL]
    /\ mcontext = [xax |-> 0, xbx |-> 0]
    /\ first_reg = [f \in PCs |-> NULL]
    /\ first_vg = [i \in VgIds |-> "none"]
    /\ last = NoOp
    /\ x64 = FALSE
    /\ vg_bb = <<>>
    /\ vg_ret = "none"
    /\ vg_call = <<>>
    /\ opts = [offline |-> TRUE, handoff |-> TRUE, arm |-> FALSE]
    /\ op_max_trace_size = trace_buf_size
    /\ proc = "running"
    /\ status = [t \in AllThreads |-> "none"]
    /\ data = [t \in AllThreads |-> ZeroData]
    /\ buf_ptr = [t \in AllThreads |-> 0]
    /\ bufs = [b \in 1..(2 * MaxBuffers) |-> NoBuf]
    /\ tlast = [t \in AllThreads |-> NoEvent]
    /\ DrainIdle

NextCap ==
    \/ \E t \in AllThreads : event_thread_init(t)
    \/ \E t \in AllThreads, k \in 1..redzone_size :
          ExecBlock(t, k, "instrumented")
    \/ \E t \in AllThreads : event_thread_exit(t)

SpecCap == InitCap /\ [][NextCap]_vars

(***************************************************************************)
(* The drain at the level of entries (part_000:264-378): what memtrace     *)
(* writes, chunk by chunk, for the entries a thread has put in its buffer. *)
(* A buffer is the sequence of its slots from buf_base up to BUF_PTR: slot *)
(* i is element i + 1.  An entry is its type and its address field, which  *)
(* holds the id in a thread or pid entry.                                  *)
(***************************************************************************)
dr_get_thread_id(t) == IF t = "t1" THEN 11 ELSE 12

\* What append_tid and append_unit_header write, and a slot of zero bytes.
ThreadEntry(t) == [type |-> "thread", addr |-> dr_get_thread_id(t)]
ZeroEntry == [type |-> "zero", addr |-> 0]

\* The buffer init_thread_in_process leaves (part_000:1039-1057): offline the
\* thread header, the tid and the pid; online the empty header slot.
InitialBuffer(t) ==
    IF dopts.offline
    THEN <<[type |-> "header", addr |-> dr_get_thread_id(t)], ThreadEntry(t),
           [type |-> "pid", addr |-> 1]>>
    ELSE <<ZeroEntry>>

\* The entries the inline code emits: instruction fetches (TRACE_TYPE_INSTR)
\* and data references, at two virtual addresses.
TraceEntries ==
    {[type |-> "instr", addr |-> 1], [type |-> "data", addr |-> 1],
     [type |-> "data", addr |-> 2]}

\* physaddr.virtual2physical: a frame for address 1, failure (0) for 2.
virtual2physical(v) == IF v = 1 THEN 3 ELSE 0

\* An entry rewritten with an address that was not looked at for zero.
TranslateUnchecked(e) ==
    IF dopts.use_physical /\ e.type \notin {"thread", "thread_exit", "pid"}
    THEN [e EXCEPT !.addr = virtual2physical(e.addr)] ELSE e

\* part_000:335-355.
Translate(e) ==
    IF dopts.use_physical /\ e.type \notin {"thread", "thread_exit", "pid"}
    THEN LET phys == virtual2physical(e.addr)
         IN  IF phys # 0 THEN [e EXCEPT !.addr = phys] ELSE e
    ELSE e

\* A header put in the slot of the entry at pipe_end.
HeaderSlotAtEnd(pipe_end) == pipe_end

\* part_000:274: pipe_start = pipe_end - buf_hdr_slots_size.
HeaderSlot(pipe_end) == pipe_end - buf_hdr_slots_size

\* A chunk that is written without a header put in front of the next one.
append_tid_skipped(buf, slot, t) == buf

\* part_000:275: instru->append_tid(pipe_start, tid).
append_tid(buf, slot, t) == [buf EXCEPT ![slot + 1] = ThreadEntry(t)]

\* part_000:264-277.  s is the drain under way: the buffer, pipe_start and
\* pipe_end as slots, the chunks written, and how it goes on.  A DR_ASSERT
\* that fails stops a debug build and is no code in a release build, where a
\* header slot below buf_base is a store outside the buffer.
atomic_pipe_write(s, pipe_end, t, debug) ==
    LET towrite == pipe_end - s.pipe_start
        out == IF towrite > 0
               THEN Append(s.out, SubSeq(s.buf, s.pipe_start + 1, pipe_end))
               ELSE s.out
    IN  IF s.stat # "ok" THEN s
        ELSE IF debug /\ ~(towrite <= AtomicWriteSize /\ towrite > buf_hdr_slots_size)
        THEN [s EXCEPT !.stat = "assert"]
        ELSE IF HeaderSlot(pipe_end) < 0
        THEN [s EXCEPT !.out = out, !.stat = "corrupt"]
        ELSE [s EXCEPT !.out = out,
                       !.pipe_start = HeaderSlot(pipe_end),
                       !.buf = append_tid(s.buf, HeaderSlot(pipe_end), t)]

\* part_000:332-367: the loop over the entries from mem_ref on.
RECURSIVE WalkEntries(_, _, _, _)
WalkEntries(s, mem_ref, t, debug) ==
    IF s.stat # "ok" \/ mem_ref >= Len(s.buf) THEN s
    ELSE LET e == s.buf[mem_ref + 1]
             s1 == [s EXCEPT !.buf[mem_ref + 1] = Translate(e)]
             s2 == IF mem_ref - s1.pipe_start > AtomicWriteSize
                   THEN atomic_pipe_write(s1, s1.pipe_end, t, debug) ELSE s1
         IN  WalkEntries(IF ~dopts.offline /\ e.type = "instr"
                         THEN [s2 EXCEPT !.pipe_end = mem_ref] ELSE s1,
                         mem_ref + 1, t, debug)

\* part_000:311-378: the header, the loop, and the writes after it.
memtrace_entries(buf, t, first, debug) ==
    LET s0 == [buf |-> IF first /\ dopts.offline THEN buf
                       ELSE [buf EXCEPT ![1] = ThreadEntry(t)],
               pipe_start |-> 0, pipe_end |-> 0, out |-> <<>>, stat |-> "ok"]
        s1 == WalkEntries(s0, buf_hdr_slots_size, t, debug)
        s2 == IF Len(buf) - s1.pipe_start > AtomicWriteSize
              THEN atomic_pipe_write(s1, s1.pipe_end, t, debug) ELSE s1
    IN  IF dopts.offline THEN [s1 EXCEPT !.out = <<s1.buf>>]
        ELSE IF Len(buf) - s2.pipe_start > buf_hdr_slots_size
        THEN atomic_pipe_write(s2, Len(buf), t, debug) ELSE s2

\* Inline code puts entry e in the buffer of thread t.
emit(t, e, limit) ==
    /\ dth[t].stat = "live"
    /\ dth[t].pend = <<>>
    /\ Len(dth[t].emitted) < limit
    /\ dth' = [dth EXCEPT ![t].buf = Append(@, e), ![t].emitted = Append(@, e)]
    /\ UNCHANGED <<annotVars, vgVars, tracerVars, dopts, lastw, l0, lk, blk>>

\* clean_call and event_pre_syscall drain the buffer (part_000:398-404,
\* 996-997); event_thread_exit appends the thread-exit entry and drains
\* (part_000:1105-1108).  The chunks are written one at a time.
DrainEntries(t, exiting) ==
    /\ dth[t].stat = "live"
    /\ dth[t].pend = <<>>
    /\ LET ex == [type |-> "thread_exit", addr |-> dr_get_thread_id(t)]
           buf == IF exiting THEN Append(dth[t].buf, ex) ELSE dth[t].buf
       IN  /\ Len(buf) # buf_hdr_slots_size
           /\ \E debug \in BOOLEAN :
                 LET r == memtrace_entries(buf, t, dth[t].num_refs = 0, debug)
                 IN  dth' = [dth EXCEPT ![t] =
                         [buf |-> <<ZeroEntry>>,
                          emitted |-> IF exiting THEN Append(@.emitted, ex)
                                      ELSE @.emitted,
                          written |-> @.written,
                          pend |-> r.out,
                          stat |-> IF r.stat # "ok" THEN r.stat
                                   ELSE IF exiting THEN "exited" ELSE "live",
                          num_refs |-> @.num_refs + Len(buf) - buf_hdr_slots_size]]
    /\ UNCHANGED <<annotVars, vgVars, tracerVars, dopts, lastw, l0, lk, blk>>

\* ipc_pipe.write, write_file or the handoff of one chunk (part_000:270,
\* 285-291).
write_chunk(t) ==
    /\ dth[t].pend # <<>>
    /\ lastw' = [by |-> t, data |-> Head(dth[t].pend)]
    /\ dth' = [dth EXCEPT ![t].written = @ \o Head(dth[t].pend),
                          ![t].pend = Tail(@)]
    /\ UNCHANGED <<annotVars, vgVars, tracerVars, dopts, l0, lk, blk>>

\* One thread, after event_thread_init, offline or online, with or without
\* physical translation.
InitDrain ==
    /\ handlers = <<>>
    /\ vg_handlers = [i \in VgIds |-> NULL]
    /\ mcontext = [xax |-> 0, xbx |-> 0]
    /\ first_reg = [f \in PCs |-> NULL]
    /\ first_vg = [i \in VgIds |-> "none"]
    /\ last = NoOp
    /\ x64 = FALSE
    /\ vg_bb = <<>>
    /\ vg_ret = "none"
    /\ vg_call = <<>>
    /\ TracerIdle
    /\ dopts \in [offline : BOOLEAN, use_physical : BOOLEAN]
    /\ dth = [t \in AllThreads |->
                 IF t \in Threads
                 THEN [NoDrain EXCEPT !.buf = InitialBuffer(t), !.stat = "live"]
                 ELSE NoDrain]
    /\ lastw = NoWrite
    /\ l0 = NoFilter
    /\ lk = [t \in AllThreads |-> [op |-> "none", mode |-> "none"]]
    /\ blk = [bb |-> <<>>, i |-> 1]

NextDrain ==
    \/ \E t \in Threads, e \in TraceEntries : emit(t, e, MaxEmitted)
    \/ \E t \in Threads, exiting \in BOOLEAN : DrainEntries(t, exiting)
    \/ \E t \in Threads : write_chunk(t)

SpecDrain == InitDrain /\ [][NextDrain]_vars

\* Two threads that write to the one pipe, online.
InitPipe ==
    /\ handlers = <<>>
    /\ vg_handlers = [i \in VgIds |-> NULL]
    /\ mcontext = [xax |-> 0, xbx |-> 0]
    /\ first_reg = [f \in PCs |-> NULL]
    /\ first_vg = [i \in VgIds |-> "none"]
    /\ last = NoOp
    /\ x64 = FALSE
    /\ vg_bb = <<>>
    /\ vg_ret = "none"
    /\ vg_call = <<>>
    /\ TracerIdle
    /\ dopts = [offline |-> FALSE, use_physical |-> FALSE]
    /\ dth = [t \in AllThreads |->
                 [NoDrain EXCEPT !.buf = InitialBuffer(t), !.stat = "live"]]
    /\ lastw = NoWrite
    /\ l0 = NoFilter
    /\ lk = [t \in AllThreads |-> [op |-> "none", mode |-> "none"]]
    /\ blk = [bb |-> <<>>, i |-> 1]

\* What each of the two threads emits: t1 instruction and data entries, t2
\* instruction entries.
PipeEntries(t) ==
    {e \in TraceEntries : e.addr = 1 /\ (t = "t1" \/ e.type = "instr")}

NextPipe ==
    \/ \E t \in AllThreads :
          \E e \in PipeEntries(t) : emit(t, e, MaxEmitted - 1)
    \/ \E t \in AllThreads : DrainEntries(t, FALSE)
    \/ \E t \in AllThreads : write_chunk(t)

SpecPipe == InitPipe /\ [][NextPipe]_vars

(***************************************************************************)
(* The level-0 cache filter (part_000:570-753): one thread, its data and   *)
(* its instruction cache, and the instructions of the block being run.     *)
(***************************************************************************)
\* log2 of -line_size (part_000:581): a line holds two address units.
line_bits == 1

\* The application addresses and PCs: the lines 1..4.  Address 0 is NULL and
\* no access touches line 0, the content of a cache slot nothing was stored in.
L0Addrs == 2..9

\* insert_filter_addr for the access of addr (a PC for the instruction cache)
\* in cache c: at instrumentation time an instruction whose masked line
\* equals the previous instruction's gets no instrumentation; otherwise the
\* inline code compares the slot with the tag, jumps to skip on a hit, and on
\* a miss stores the tag and falls through to the entry.  mask is the line
\* count minus one, 0 or 1 here, so tag & mask is tag % (mask + 1).
insert_filter_addr(f, c, addr) ==
    LET mask == f.mask[c]
        tag == addr \div (2 ^ line_bits)
        idx == tag % (mask + 1)
        prior_line == (f.last_app_pc \div (2 ^ line_bits)) % (mask + 1)
        g == IF c = "icache" THEN [f EXCEPT !.last_app_pc = addr] ELSE f
    IN  IF c = "icache" /\ f.last_app_pc # 0 /\ prior_line = idx
        THEN [f |-> f, entry |-> FALSE]
        ELSE IF g.cache[c][idx] = tag
        THEN [f |-> g, entry |-> FALSE]
        ELSE [f |-> [g EXCEPT !.cache[c][idx] = tag,
                              !.held[c] = {x \in @ : x % (mask + 1) # idx}
                                              \cup {tag}],
              entry |-> TRUE]

\* instrument_instr with the filter on, for the next instruction of the
\* block, and the update of ud->last_app_pc that follows the call
\* (part_000:893): the entry and the pointer update are inside the skip label.
instrument_instr(pc) ==
    /\ l0.on /\ l0.ptr < MAX_NUM_ENTRIES
    /\ l0.last_app_pc = 0 \/ pc = l0.last_app_pc + 1
    /\ LET r == insert_filter_addr(l0, "icache", pc)
       IN  l0' = [r.f EXCEPT !.last_app_pc = pc,
                             !.ptr = IF r.entry THEN @ + 1 ELSE @,
                             !.last = [cache |-> "icache",
                                       line |-> pc \div (2 ^ line_bits),
                                       entry |-> r.entry]]
    /\ UNCHANGED <<annotVars, vgVars, tracerVars, dopts, dth, lastw, lk, blk>>

\* instrument_memref with the filter on, for a data reference to addr.
instrument_memref(addr) ==
    /\ l0.on /\ l0.ptr < MAX_NUM_ENTRIES
    /\ LET r == insert_filter_addr(l0, "dcache", addr)
       IN  l0' = [r.f EXCEPT !.ptr = IF r.entry THEN @ + 1 ELSE @,
                             !.last = [cache |-> "dcache",
                                       line |-> addr \div (2 ^ line_bits),
                                       entry |-> r.entry]]
    /\ UNCHANGED <<annotVars, vgVars, tracerVars, dopts, dth, lastw, lk, blk>>

\* event_bb_app2app: a new block starts with no previous instruction.
event_bb_app2app ==
    /\ l0.on /\ l0.last_app_pc # 0
    /\ l0' = [l0 EXCEPT !.last_app_pc = 0, !.last = NoFilter.last]
    /\ UNCHANGED <<annotVars, vgVars, tracerVars, dopts, dth, lastw, lk, blk>>

\* The clean call of a full buffer: memtrace rewinds the pointer and leaves
\* the caches alone.
instrument_clean_call ==
    /\ l0.on /\ l0.ptr >= MAX_NUM_ENTRIES
    /\ l0' = [l0 EXCEPT !.ptr = 0, !.last = NoFilter.last]
    /\ UNCHANGED <<annotVars, vgVars, tracerVars, dopts, dth, lastw, lk, blk>>

\* The size of a pointer, in bytes.
sizeof_ptr == 8

\* The values of -L0D_size and -L0I_size, in the units a line holds
\* 2 ^ line_bits of: one line, one line and a half, two lines.
L0Sizes == {2, 3, 4}

\* The byte size of the array of a cache of cache_size: one pointer a line.
l0_array_size(cache_size) == (cache_size \div (2 ^ line_bits)) * sizeof_ptr

\* The sizes event_thread_exit passes to dr_raw_mem_free for the two arrays.
l0_free_sizes(f) ==
    [dcache |-> l0_array_size(f.size.dcache),
     icache |-> l0_array_size(f.size.dcache)]

\* event_thread_exit with -L0_filter: the thread's two arrays are freed.
event_thread_exit_l0 ==
    /\ l0.on
    /\ l0' = [l0 EXCEPT !.on = FALSE, !.freed = l0_free_sizes(l0),
                        !.last = NoFilter.last]
    /\ UNCHANGED <<annotVars, vgVars, tracerVars, dopts, dth, lastw, lk, blk>>

\* One thread after init_thread_in_process with -L0_filter: both caches
\* zeroed, each of one line or of two, its array allocated with one pointer
\* a line.
InitFilter ==
    /\ handlers = <<>>
    /\ vg_handlers = [i \in VgIds |-> NULL]
    /\ mcontext = [xax |-> 0, xbx |-> 0]
    /\ first_reg = [f \in PCs |-> NULL]
    /\ first_vg = [i \in VgIds |-> "none"]
    /\ last = NoOp
    /\ x64 = FALSE
    /\ vg_bb = <<>>
    /\ vg_ret = "none"
    /\ vg_call = <<>>
    /\ TracerIdle
    /\ dopts = [offline |-> FALSE, use_physical |-> FALSE]
    /\ dth = [t \in AllThreads |-> NoDrain]
    /\ lastw = NoWrite
    /\ lk = [t \in AllThreads |-> [op |-> "none", mode |-> "none"]]
    /\ blk = [bb |-> <<>>, i |-> 1]
    /\ \E L0D_size \in L0Sizes, L0I_size \in L0Sizes :
        LET md == L0D_size \div (2 ^ line_bits) - 1
            mi == L0I_size \div (2 ^ line_bits) - 1
        IN
          l0 = [NoFilter EXCEPT
                   !.on = TRUE,
                   !.size = [dcache |-> L0D_size, icache |-> L0I_size],
                   !.alloc = [dcache |-> l0_array_size(L0D_size),
                              icache |-> l0_array_size(L0I_size)],
                   !.mask = [dcache |-> md, icache |-> mi],
                   !.cache = [dcache |-> [i \in 0..md |-> 0],
                              icache |-> [i \in 0..mi |-> 0]]]

NextFilter ==
    \/ \E pc \in L0Addrs : instrument_instr(pc)
    \/ \E addr \in L0Addrs : instrument_memref(addr)
    \/ event_bb_app2app
    \/ instrument_clean_call
    \/ event_thread_exit_l0

SpecFilter == InitFilter /\ [][NextFilter]_vars

(***************************************************************************)
(* The registry lock (annot.c:96-124, 130-146, 156-170, 182-202, 305-309,  *)
(* 335-345): threads that take the table's read-write lock, work on the    *)
(* handlers while they hold it, and release it.  TABLE_RWLOCK is a macro   *)
(* of core/hashtable.h: a lock that admits readers together and a writer   *)
(* alone.                                                                  *)
(***************************************************************************)
\* A table access that takes no lock.
LockModeNone(op) == "none"

\* The mode in which each operation takes the lock.
LockMode(op) ==
    IF op \in {"annot_match", "handle_vg_annotation"} THEN "read" ELSE "write"

\* TABLE_RWLOCK(handlers, mode, lock) at the head of operation op: the thread
\* waits until the lock can be granted in the mode.
rwlock_lock(t, op) ==
    /\ lk[t].op = "none"
    /\ LET mode == LockMode(op) IN
         /\ mode = "write" => \A u \in AllThreads : lk[u].mode = "none"
         /\ mode = "read" => \A u \in AllThreads : lk[u].mode # "write"
         /\ lk' = [lk EXCEPT ![t] = [op |-> op, mode |-> mode]]
    /\ UNCHANGED <<annotVars, vgVars, tracerVars, dopts, dth, lastw, l0, blk>>

\* TABLE_RWLOCK(handlers, mode, unlock).
rwlock_unlock(t) ==
    /\ lk[t].mode # "none"
    /\ lk' = [lk EXCEPT ![t] = [op |-> "none", mode |-> "none"]]
    /\ UNCHANGED <<annotVars, vgVars, tracerVars, dopts, dth, lastw, l0, blk>>

\* The end of an annot_match that found a chain: the lock is released and
\* the markers go to the caller, whose thread holds them from here on.
annot_match_unlock(t) ==
    /\ lk[t].op = "annot_match"
    /\ last.op = "annot_match" /\ Len(last.ret) > 0
    /\ lk' = [lk EXCEPT ![t] = [op |-> "marker", mode |-> "none"]]
    /\ UNCHANGED <<annotVars, vgVars, tracerVars, dopts, dth, lastw, l0, blk>>

\* The caller of annot_match is done with the markers it was given.
marker_done(t) ==
    /\ lk[t].op = "marker"
    /\ lk' = [lk EXCEPT ![t] = [op |-> "none", mode |-> "none"]]
    /\ UNCHANGED <<annotVars, vgVars, tracerVars, dopts, dth, lastw, l0, blk>>

\* Two threads: each operation's work on the table and on the Valgrind array
\* lies between its lock and its unlock; annot_match of an instruction that
\* is no direct call, and a Valgrind registration or request with an id out
\* of range, touch neither and take no lock.
NextLock ==
    \/ \E t \in AllThreads,
            op \in {"annot_register_call", "annot_register_return",
                    "annot_register_valgrind", "annot_match",
                    "handle_vg_annotation", "event_module_unload"} :
          rwlock_lock(t, op)
    \/ \E t \in AllThreads : rwlock_unlock(t)
    \/ \E t \in AllThreads : annot_match_unlock(t)
    \/ \E t \in AllThreads : marker_done(t)
    \/ \E t \in AllThreads :
          /\ lk[t].op = "annot_register_call"
          /\ annot_register_call(1, "cb1", FALSE, <<>>)
    \/ \E t \in AllThreads :
          /\ lk[t].op = "annot_register_return"
          /\ annot_register_return(1, 1)
    \/ \E t \in AllThreads, id \in 0..VG_ID__LAST :
          /\ lk[t].op = IF ValidVgId(id) THEN "annot_register_valgrind" ELSE "none"
          /\ annot_register_valgrind(id, "cb1")
    \/ \E t \in AllThreads, instr \in Instrs :
          /\ instr.target = 1
          /\ lk[t].op = IF MatchedInstr(instr) THEN "annot_match" ELSE "none"
          /\ annot_match(instr)
    \/ \E t \in AllThreads, request \in RequestBlocks :
          /\ request.default_result = 0
          /\ lk[t].op = IF lookup_valgrind_request(request.request) < VG_ID__LAST
                        THEN "handle_vg_annotation" ELSE "none"
          /\ handle_vg_annotation(TRUE, request, 3)
    \/ \E t \in AllThreads :
          /\ lk[t].op = "event_module_unload"
          /\ event_module_unload(0, 2)

SpecLock == InitAnnot /\ [][NextLock]_vars

(***************************************************************************)
(* The instrumentation of one basic block (part_000:442-479, 758-940): the *)
(* handler runs on the block's instructions in order and inserts, before   *)
(* the instruction it runs on, inline code that appends entries; out lists *)
(* the entries in the order in which the block's code appends them.  The   *)
(* instruction at position i has the application PC i, except in a block   *)
(* drutil expanded from a string loop (repstr), whose instructions all     *)
(* have the PC of the string instruction.  Filtering is off.               *)
(***************************************************************************)
MAX_NUM_DELAY_INSTRS == 32

\* The kinds of instruction: no memory reference, one memory reference, an
\* exclusive store that does not write its base register, one that does,
\* and a label (no application instruction).
InstrKinds == {"plain", "load", "strex", "strex_wb", "label"}

\* Mutant of instrument_delay_instrs: the bundle ahead of the full entry.
instrument_delay_instrs_swapped(delay) ==
    [j \in 1..(Len(delay) - 1) |-> [type |-> "bundle", pc |-> delay[j + 1]]]
        \o <<[type |-> "instr", pc |-> delay[1]]>>

\* part_000:442-479.  Nothing for an expanded string loop; else a full
\* instr entry for the first delayed instruction and, for the others, a
\* bundle in the order of delay_instrs (instrument_ibundle is code of
\* instru_t: one bundle element per instruction, in the array's order) or,
\* with physical addresses, a full instr entry each.
instrument_delay_instrs(delay) ==
    IF blk.repstr THEN <<>>
    ELSE <<[type |-> "instr", pc |-> delay[1]]>>
            \o [j \in 1..(Len(delay) - 1) |->
                   [type |-> IF blk.phys THEN "instr" ELSE "bundle",
                    pc |-> delay[j + 1]]]

\* A deferred exclusive store whose entries are never inserted.
strex_entries_dropped(p) == <<>>

\* part_000:866-874: instrument_instr and instrument_memref for ud->strex.
strex_entries(p) ==
    <<[type |-> "instr", pc |-> p], [type |-> "memref", pc |-> p]>>

\* event_app_instruction for the next instruction of the block
\* (part_000:758-940).
event_app_instruction ==
    /\ blk.i <= Len(blk.bb)
    /\ LET i == blk.i
           kind == blk.bb[i]
           pc == IF blk.repstr THEN 1 ELSE i
           first == i = 1
           lastinstr == i = Len(blk.bb)
           is_memref == kind \in {"load", "strex", "strex_wb"}
           next == [blk EXCEPT !.i = i + 1]
       IN  IF /\ kind = "label" \/ blk.last_app_pc = pc
              /\ blk.strex = 0
              /\ ~blk.offline \/ ~first
           THEN blk' = next
           ELSE IF blk.strex = 0 /\ kind \in {"strex", "strex_wb"}
           THEN blk' = IF kind = "strex"
                       THEN [next EXCEPT !.strex = i, !.last_app_pc = pc]
                       ELSE next
           ELSE IF /\ ~blk.offline \/ ~first
                   /\ ~is_memref
                   /\ ~lastinstr
                   /\ blk.strex = 0
                   /\ Len(blk.delay) < MAX_NUM_DELAY_INSTRS
           THEN blk' = [next EXCEPT !.delay = Append(@, i)]
           ELSE LET delayed == IF blk.delay # <<>>
                               THEN instrument_delay_instrs(blk.delay) ELSE <<>>
                    strex == IF blk.strex # 0
                             THEN strex_entries(blk.strex) ELSE <<>>
                    fetch == IF is_memref \/ ~blk.repstr
                             THEN <<[type |-> "instr", pc |-> pc]>> ELSE <<>>
                    memrefs == IF is_memref
                               THEN <<[type |-> "memref", pc |-> pc]>> ELSE <<>>
                IN  blk' = [next EXCEPT
                               !.delay = <<>>, !.strex = 0, !.last_app_pc = pc,
                               !.out = @ \o delayed \o strex \o fetch
                                         \o memrefs]
    /\ UNCHANGED <<annotVars, vgVars, tracerVars, dopts, dth, lastw, l0, lk>>

\* event_bb_app2app has set up the user data of a block of one to MaxPC
\* instructions (part_000:945-960), traced offline or online, with virtual
\* or physical addresses.  An expanded string loop has no exclusive store.
\* The long blocks, of more than MAX_NUM_DELAY_INSTRS instructions without
\* memory reference and at most one load, fill the delay queue.
InitBlock ==
    /\ handlers = <<>>
    /\ vg_handlers = [i \in VgIds |-> NULL]
    /\ mcontext = [xax |-> 0, xbx |-> 0]
    /\ first_reg = [f \in PCs |-> NULL]
    /\ first_vg = [i \in VgIds |-> "none"]
    /\ last = NoOp
    /\ x64 = FALSE
    /\ vg_bb = <<>>
    /\ vg_ret = "none"
    /\ vg_call = <<>>
    /\ TracerIdle
    /\ dopts = [offline |-> FALSE, use_physical |-> FALSE]
    /\ dth = [t \in AllThreads |-> NoDrain]
    /\ lastw = NoWrite
    /\ l0 = NoFilter
    /\ lk = [t \in AllThreads |-> [op |-> "none", mode |-> "none"]]
    /\ \E n \in 1..MaxPC, offline \in BOOLEAN, phys \in BOOLEAN,
          repstr \in BOOLEAN :
          \E bb \in [1..n -> IF repstr THEN InstrKinds \ {"strex", "strex_wb"}
                                       ELSE InstrKinds]
                    \cup {[j \in 1..(MAX_NUM_DELAY_INSTRS + 2) |->
                              IF j = k THEN "load" ELSE "plain"] :
                             k \in {0, 1, MAX_NUM_DELAY_INSTRS,
                                    MAX_NUM_DELAY_INSTRS + 1}} :
             blk = [bb |-> bb, i |-> 1, offline |-> offline, phys |-> phys,
                    repstr |-> repstr, last_app_pc |-> 0, delay |-> <<>>,
                    strex |-> 0, out |-> <<>>]

NextBlock == event_app_instruction

SpecBlock == InitBlock /\ [][NextBlock]_vars

(***************************************************************************)
(* Claims about the annotation engine                                      *)
(***************************************************************************)
\* The fields of a stored handler that a registration sets.
SameRegistration(h, r) ==
    /\ h # NULL
    /\ h.type = r.type
    /\ h.key = r.key
    /\ h.instrumentation = r.instrumentation
    /\ h.save_fpstate = r.save_fpstate
    /\ h.num_args = Len(r.args)
    /\ h.args = r.args

\* C1: the handler stored for an annotation address is the one the first
\* registration for that address created: its kind, callback or return value,
\* save_fpstate and arguments are those of the first registration, whatever
\* registrations of either kind followed.
C1_FirstRegistrationKept ==
    \A f \in PCs :
        first_reg[f] # NULL =>
            SameRegistration(generic_hash_lookup(handlers, f), first_reg[f])

\* C1 witness: a return-value registration was just made for an address whose
\* stored handler is the call handler registered before it.
C1_Witness ==
    /\ last.op = "annot_register_return"
    /\ generic_hash_lookup(handlers, last.key) # NULL
    /\ generic_hash_lookup(handlers, last.key).type = "ANNOT_HANDLER_CALL"
    /\ generic_hash_lookup(handlers, last.key).instrumentation = "cb2"

\* C2: a module-unload sweep over (start, end) removes exactly the handlers
\* keyed strictly between the bounds; the handlers keyed at or outside the
\* bounds and the Valgrind handlers are unchanged, for every table order.
C2_SweepRemovesExactlyRange ==
    [][last'.op = "event_module_unload" =>
         LET start == last'.key[1]
             end == last'.key[2]
         IN  /\ \A k \in PCs :
                   IF start < k /\ k < end
                   THEN generic_hash_lookup(handlers', k) = NULL
                   ELSE generic_hash_lookup(handlers', k)
                            = generic_hash_lookup(handlers, k)
             /\ Len(handlers') = Cardinality(TableKeys(handlers'))
             /\ vg_handlers' = vg_handlers]_vars

\* C2 witness (scenario S6): with handlers at 1, 2 and 3 and a Valgrind
\* handler registered, a sweep over (1, 3) removed the handler at 2 alone.
C2_Witness ==
    /\ last.op = "event_module_unload"
    /\ last.key = <<1, 3>>
    /\ last.ret = {2}
    /\ TableKeys(handlers) = {1, 3}
    /\ \E i \in VgIds : vg_handlers[i] # NULL

\* C7, first part: the handler stored for a request id below VG_ID__LAST is
\* the one of the first registration for that id.
C7_FirstValgrindKept ==
    \A id \in VgIds :
        first_vg[id] # "none" =>
            /\ vg_handlers[id] # NULL
            /\ vg_handlers[id].type = "ANNOT_HANDLER_VALGRIND"
            /\ vg_handlers[id].key = id
            /\ vg_handlers[id].instrumentation = first_vg[id]

\* C7: the first Valgrind registration for a request id is kept, and a
\* registration with a request id at or above VG_ID__LAST changes neither the
\* Valgrind handler array nor the handler table.
C7_ValgrindRegistration ==
    [][/\ C7_FirstValgrindKept'
       /\ (last'.op = "annot_register_valgrind" /\ last'.key >= VG_ID__LAST) =>
             (vg_handlers' = vg_handlers /\ handlers' = handlers)]_vars

\* C7 witness: a registration was just made for an id whose stored handler
\* holds another callback, the one registered first.
C7_Witness ==
    /\ last.op = "annot_register_valgrind"
    /\ last.key \in VgIds
    /\ last.ret = "cb2"
    /\ vg_handlers[last.key] # NULL
    /\ vg_handlers[last.key].instrumentation = "cb1"

\* C7 witness of the second part: an out-of-range registration was made while
\* a handler is registered.
C7_WitnessOutOfRange ==
    /\ last.op = "annot_register_valgrind"
    /\ last.key >= VG_ID__LAST
    /\ \E i \in VgIds : vg_handlers[i] # NULL

\* The handler chain that hangs off a table entry.
RECURSIVE ChainOf(_)
ChainOf(h) == IF h = NULL THEN <<>> ELSE <<h>> \o ChainOf(h.next_handler)

\* C8: for a direct call whose target has a handler chain annot_match returns
\* a doubly linked list of one label per chain link, in chain order, each
\* flagged as an annotation, carrying its handler as note and not to be
\* mangled; for any other instruction it returns no marker.
C8_MatchReturnsMarkers ==
    last.op = "annot_match" =>
        LET chain == IF last.ok
                     THEN ChainOf(generic_hash_lookup(handlers, last.key))
                     ELSE <<>>
            list == last.ret
        IN  /\ Len(list) = Len(chain)
            /\ \A i \in 1..Len(list) :
                  /\ list[i].opcode = "OP_LABEL"
                  /\ list[i].annotation
                  /\ list[i].note = chain[i]
                  /\ ~list[i].ok_to_mangle
                  /\ list[i].prev = i - 1
                  /\ list[i].next = IF i = Len(list) THEN 0 ELSE i + 1

\* C8 witness (scenario S3): a direct call to an address with a return-value
\* handler was matched to one marker carrying that handler.
C8_Witness ==
    /\ last.op = "annot_match"
    /\ last.ok
    /\ Len(last.ret) = 1
    /\ last.ret[1].note.type = "ANNOT_HANDLER_RETURN_VALUE"
    /\ last.ret[1].note.key = last.key

\* C5: after a successful read of the request block XBX holds the callback's
\* return value when the request number is known and has a handler, and the
\* block's default_result otherwise; the callback runs at most once.
C5_DispatchResult ==
    (last.op = "handle_vg_annotation" /\ last.ok) =>
        LET has_handler ==
                /\ last.key.request = VG_USERREQ__MAKE_MEM_DEFINED_IF_ADDRESSABLE
                /\ vg_handlers[VG_ID__MAKE_MEM_DEFINED_IF_ADDRESSABLE] # NULL
        IN  /\ mcontext.xbx = IF has_handler THEN last.ret
                              ELSE last.key.default_result
            /\ last.ncalls = IF has_handler THEN 1 ELSE 0

\* C5 witness: a dispatch invoked the registered callback and XBX holds what
\* it returned, which is not the block's default result.
C5_Witness ==
    /\ last.op = "handle_vg_annotation"
    /\ last.ok
    /\ last.ncalls = 1
    /\ mcontext.xbx = last.ret
    /\ mcontext.xbx # last.key.default_result

\* C6: when the safe read of the request block fails the dispatcher has no
\* side effect: no callback runs, the registry lock is not taken, and the
\* machine context, XBX included, is as it was.
C6_FailedReadNoEffect ==
    [][(last'.op = "handle_vg_annotation" /\ ~last'.ok) =>
          /\ mcontext' = mcontext
          /\ vg_handlers' = vg_handlers
          /\ handlers' = handlers
          /\ last'.ncalls = 0
          /\ last'.lock = "none"]_vars

\* C6 witness: a dispatch whose read failed, for a request that has a handler
\* and a default result that differs from XBX.
C6_Witness ==
    /\ last.op = "handle_vg_annotation"
    /\ ~last.ok
    /\ last.key.request = VG_USERREQ__MAKE_MEM_DEFINED_IF_ADDRESSABLE
    /\ vg_handlers[VG_ID__MAKE_MEM_DEFINED_IF_ADDRESSABLE] # NULL
    /\ mcontext.xbx # last.key.default_result
    /\ mcontext.xbx # last.ret

(***************************************************************************)
(* Claims about match_valgrind_pattern                                     *)
(***************************************************************************)
\* The Valgrind pattern as the claims state it: an exchange of XBX with XBX
\* after four rotates of XDI by 3, 13, 29, 19 (3, 13, 61, 51 on x64).
IsValgrindPattern(bb, instr) ==
    LET immeds == IF x64 THEN <<3, 13, 61, 51>> ELSE <<3, 13, 29, 19>>
        n == Len(bb)
    IN  /\ instr.srcs[1] = [kind |-> "reg", reg |-> "DR_REG_XBX"]
        /\ instr.dsts[1] = [kind |-> "reg", reg |-> "DR_REG_XBX"]
        /\ n >= 4
        /\ \A i \in 1..4 :
              /\ bb[n - 4 + i].opcode = "OP_rol"
              /\ bb[n - 4 + i].srcs[1] = [kind |-> "immed", val |-> immeds[i]]
              /\ bb[n - 4 + i].dsts[1] = [kind |-> "reg", reg |-> "DR_REG_XDI"]

\* C3: on the Valgrind pattern match_valgrind_pattern returns true, the four
\* rotates and the exchange are gone, the earlier instructions are unchanged,
\* and the block ends with one XBX-clearing instruction tagged with the
\* exchange's PC followed by one clean call to handle_vg_annotation on XAX.
C3_PatternRewritten ==
    (vg_ret # "none" /\ IsValgrindPattern(vg_call.bb, vg_call.instr)) =>
        LET n == Len(vg_call.bb) IN
        /\ vg_ret = "true"
        /\ Len(vg_bb) = n - 4 + 2
        /\ SubSeq(vg_bb, 1, n - 4) = SubSeq(vg_call.bb, 1, n - 4)
        /\ vg_bb[n - 3].opcode = "OP_xor"
        /\ vg_bb[n - 3].dsts = <<[kind |-> "reg", reg |-> "DR_REG_XBX"]>>
        /\ vg_bb[n - 3].srcs[1] = [kind |-> "reg", reg |-> "DR_REG_XBX"]
        /\ vg_bb[n - 3].app_pc = vg_call.instr.app_pc
        /\ vg_bb[n - 2].opcode = "clean_call"
        /\ vg_bb[n - 2].callee = "handle_vg_annotation"
        /\ vg_bb[n - 2].srcs = <<[kind |-> "reg", reg |-> "DR_REG_XAX"]>>
        /\ \A i \in 1..(n - 4) : vg_bb[i].opcode \notin {"OP_xor", "clean_call"}

\* C3 witness (scenarios S1, S2): a move, the four rotates and the exchange
\* at PC 9 were rewritten.
C3_Witness ==
    /\ vg_ret = "true"
    /\ Len(vg_call.bb) = 5
    /\ vg_call.bb[1].opcode = "OP_mov_ld"
    /\ vg_call.instr.app_pc = 9
    /\ Len(vg_bb) = 3
    /\ vg_bb[1].opcode = "OP_mov_ld"

\* C4: in every case that is not the Valgrind pattern, a block of fewer than
\* four instructions included, match_valgrind_pattern returns false and the
\* block is as it was.
C4_NoMatchLeavesBlock ==
    (vg_ret # "none" /\ ~IsValgrindPattern(vg_call.bb, vg_call.instr)) =>
        (vg_ret = "false" /\ vg_bb = vg_call.bb)

(***************************************************************************)
(* Claims about the tracer's buffer                                        *)
(***************************************************************************)
\* C9: in every state of a thread that has been initialised and has not
\* exited, BUF_PTR lies in [buf_base + header_slot_size, buf_base +
\* trace_buf_size + redzone_size], no block emitting more than redzone_size.
C9_PointerInRange ==
    \A t \in Threads :
        status[t] \in {"live", "syscall", "fork", "overrun"} =>
            /\ buf_ptr[t] >= buf_hdr_slots_size
            /\ buf_ptr[t] <= trace_buf_size + redzone_size

\* C10: after create_buffer and after every completed drain (written,
\* handed off, suppressed, or after the fallback to the reserve buffer)
\* every byte of the redzone of the current buffer is nonzero.
C10_RedzoneNonzero ==
    \A t \in Threads :
        tlast[t].drain \in {"create_buffer", "written", "handoff",
                            "suppressed", "fallback"} => tlast[t].rz

\* Every byte of the trace region [buf_base, buf_base + trace_buf_size) of
\* the thread's current buffer is zero.
TraceRegionZero(t) ==
    LET b == bufs[data[t].buf_base] IN b.state = "tracer" /\ b.thwm = 0

\* C11: when a drain returns without having handed the buffer off (a
\* synchronous write, a suppressed write, or an empty buffer), BUF_PTR is
\* buf_base + header_slot_size and the whole trace region is zero.
C11_DrainLeavesBufferZero ==
    \A t \in Threads :
        (/\ status[t] \in {"live", "syscall", "fork"}
         /\ tlast[t].drain \in {"written", "suppressed", "empty"}) =>
            /\ buf_ptr[t] = buf_hdr_slots_size
            /\ TraceRegionZero(t)

\* The thread's size cap is exceeded: a positive max_trace_size below its
\* bytes_written.
OverCap(t) ==
    op_max_trace_size > 0 /\ data[t].bytes_written > op_max_trace_size

\* The step is a drain of a buffer that holds entries, called by clean_call
\* or event_pre_syscall, that is, without the bypass of the size cap.
DrainWithoutBypass(t) ==
    /\ tlast'[t].op \in {"block", "event_pre_syscall"}
    /\ tlast'[t].drain \notin {"none", "empty"}

\* No buffer passes to the handoff callback in the step.
NothingHandedOff ==
    \A b \in DOMAIN bufs : bufs'[b].state = "handoff" => bufs[b].state = "handoff"

\* C17 (as the code has it): a drain without bypass of a thread whose
\* bytes_written already exceeds a positive max_trace_size writes nothing,
\* hands nothing off and raises no error, and the thread's counters stay as
\* they were: neither bytes_written nor num_refs advances.
C17_SuppressedDrainLeavesCounters ==
    [][\A t \in Threads :
          (OverCap(t) /\ DrainWithoutBypass(t)) =>
              /\ tlast'[t].drain = "suppressed"
              /\ proc' = "running"
              /\ NothingHandedOff
              /\ data'[t] = data[t]]_vars

C17_Witness ==
    /\ tlast["t1"].op = "block"
    /\ tlast["t1"].drain = "suppressed"
    /\ data["t1"].num_refs > 0
    /\ OverCap("t1")

\* C17 as stated: the suppressed drain writes nothing, and num_refs still
\* advances by the entries of the suppressed buffer, of which there is at
\* least one.
C17_SuppressedDrainStillCounts ==
    [][\A t \in Threads :
          (OverCap(t) /\ DrainWithoutBypass(t)) =>
              /\ tlast'[t].drain = "suppressed"
              /\ proc' = "running"
              /\ NothingHandedOff
              /\ data'[t].bytes_written = data[t].bytes_written
              /\ data'[t].num_refs > data[t].num_refs]_vars

\* The step is a drain after which the allocation of the next buffer failed.
AllocationFailsAfterDrain(t) ==
    /\ tlast'[t].op # "event_thread_init"
    /\ tlast'[t].drain \in {"fallback", "fatal_oom"}

C19_ExitWritesFooter ==
    [][\A t \in Threads :
          (status[t] # "exited" /\ status'[t] = "exited") =>
              /\ tlast'[t].op = "event_thread_exit"
              /\ tlast'[t].drain \in {"written", "handoff", "fallback"}
              /\ tlast'[t].hdr
              /\ OverCap(t) =>
                    data'[t].bytes_written = data[t].bytes_written
                        + buf_hdr_slots_size + ThreadExitEntries]_vars

\* C18: with max_trace_size set to M > 0 by the user (M = trace_buf_size in
\* SpecCap), the bytes a thread writes before its exit never exceed M by
\* more than one buffer (max_buf_size).
C18_CapOvershootOneBuffer ==
    \A t \in AllThreads :
        tlast[t].op # "event_thread_exit" =>
            data[t].bytes_written <= trace_buf_size + max_buf_size

(***************************************************************************)
(* Claims about the entries a drain writes                                 *)
(***************************************************************************)
\* C12: online, every write issued to the named pipe carries at most
\* atomic_write_size bytes, whatever the buffer holds and wherever its
\* instruction entries are.
C12_PipeWriteAtomic ==
    (~dopts.offline /\ lastw.by # "none") =>
        Len(lastw.data) <= AtomicWriteSize

\* C13: every chunk written to the pipe, the first of a drain and each one
\* produced by splitting, begins with a header entry that carries the id of
\* the thread that writes it, however the writes of the threads interleave.
C13_ChunkBeginsWithOwnHeader ==
    /\ lastw.by # "none" => Head(lastw.data) = ThreadEntry(lastw.by)
    /\ \A t \in AllThreads :
          \A i \in 1..Len(dth[t].pend) : Head(dth[t].pend[i]) = ThreadEntry(t)

\* t2 writes a chunk produced by splitting while t1 is between two chunks of
\* its own drain.
C13_Witness ==
    /\ lastw.by = "t2"
    /\ Len(dth["t2"].written) > Len(lastw.data)
    /\ dth["t2"].num_refs = MaxEmitted - 1
    /\ dth["t1"].pend # <<>>
    /\ dth["t1"].written # <<>>

\* The entries of a sequence that are no header: no thread header, thread
\* (unit header) or pid entry.
Payload(seq) ==
    SelectSeq(seq, LAMBDA e : e.type \notin {"header", "thread", "pid"})

\* a is a prefix of b.
IsPrefix(a, b) == Len(a) <= Len(b) /\ a = SubSeq(b, 1, Len(a))

\* C14: without size cap and allocation failure, the entries a thread has
\* written over all its drains, headers removed, are the entries it emitted,
\* in emission order, none lost and none duplicated, offline and online with
\* chunk splitting: at every moment what is written is a prefix of what was
\* emitted, and once a drain is over what is written, with what a thread that
\* still runs has in its buffer, makes up everything emitted.
C14_WrittenIsEmitted ==
    \A t \in Threads :
        LET expected == [i \in 1..Len(dth[t].emitted) |->
                            Translate(dth[t].emitted[i])]
            rest == IF dth[t].stat = "live"
                    THEN Payload(Tail(dth[t].buf)) ELSE <<>>
        IN  /\ IsPrefix(Payload(dth[t].written), expected)
            /\ dth[t].pend = <<>> =>
                   Payload(dth[t].written) \o
                       [i \in 1..Len(rest) |-> Translate(rest[i])]
                   = expected

\* C15: with physical translation enabled, each drained entry that is not a
\* thread, thread-exit or pid entry carries virtual2physical(v) as its
\* address when that value is nonzero and its virtual address v otherwise;
\* the entry is never dropped: the written entries are, position by
\* position, the emitted ones with those addresses.
C15_PhysicalAddresses ==
    \A t \in Threads :
        LET w == Payload(dth[t].written) IN
        /\ Len(w) <= Len(dth[t].emitted)
        /\ \A i \in 1..Len(w) :
              LET e == dth[t].emitted[i]
                  phys == virtual2physical(e.addr)
              IN  /\ w[i].type = e.type
                  /\ w[i].addr =
                        IF /\ dopts.use_physical
                           /\ e.type \notin {"thread", "thread_exit", "pid"}
                           /\ phys # 0
                        THEN phys ELSE e.addr

\* With translation on, an entry whose translation fails has been written
\* between one that was translated and the thread-exit entry.
C15_Witness ==
    /\ dopts.use_physical
    /\ dth["t1"].pend = <<>>
    /\ \E i \in 1..(Len(dth["t1"].written) - 2) :
          /\ dth["t1"].written[i] = [type |-> "data", addr |-> 3]
          /\ dth["t1"].written[i + 1] = [type |-> "data", addr |-> 2]
          /\ dth["t1"].written[i + 2].type = "thread_exit"
    /\ dth["t1"].emitted[1] = [type |-> "instr", addr |-> 1]
    /\ dth["t1"].emitted[2] = [type |-> "data", addr |-> 1]
    /\ dth["t1"].emitted[3] = [type |-> "data", addr |-> 2]

\* C16: with the level-0 filter on, within one thread and one cache, an
\* access whose line an earlier miss stored, and no later miss to another
\* line of the same index replaced, produces no entry and leaves the buffer
\* pointer unchanged; an access that misses (its slot does not hold its
\* line) stores the tag in the slot and produces the entry.
C16_FilterIsDirectMappedCache ==
    [][(l0' # l0 /\ l0'.last.cache # "none") =>
          LET c == l0'.last.cache
              line == l0'.last.line
              idx == line % (l0.mask[c] + 1)
          IN  /\ line \in l0.held[c] =>
                    ~l0'.last.entry /\ l0'.ptr = l0.ptr
              /\ l0.cache[c][idx] # line =>
                    l0'.last.entry /\ l0'.cache[c][idx] = line]_vars

(***************************************************************************)
(* Claims about buffer ownership and failures                              *)
(***************************************************************************)
\* C21: once a buffer has been passed to the handoff callback the tracer
\* never uses it again: no step of the tracer frees it or takes it back, and
\* it is not the buffer a thread goes on tracing into (which inline code
\* writes, drains reset and the next drain hands off again).
C21_HandedOffBufferNotReused ==
    [][/\ \A b \in DOMAIN bufs :
             /\ bufs[b].state = "handoff" => bufs'[b].state = "handoff"
             /\ bufs'[b].state # "misfreed"
       /\ \A t \in Threads :
             (proc' = "running" /\ status'[t] \in {"live", "syscall", "fork"}) =>
                 bufs'[data'[t].buf_base].state # "handoff"]_vars

(***************************************************************************)
(* Claims about the registry lock                                          *)
(***************************************************************************)
\* C22: under any interleaving of two threads, every traversal of the
\* handler table by annot_match and every read of the Valgrind array by
\* handle_vg_annotation is made by a thread that holds the lock in read mode
\* while no thread holds it in write mode, and every change of the table or
\* of the array (a registration, a module-unload sweep) is made by a thread
\* that holds the lock in write mode while no other thread holds it at all.
C22_AccessesUnderLock ==
    [][(last' # last \/ handlers' # handlers \/ vg_handlers' # vg_handlers) =>
          /\ last'.lock = "read" =>
                /\ \E t \in AllThreads :
                      lk[t].op = last'.op /\ lk[t].mode = "read"
                /\ \A u \in AllThreads : lk[u].mode # "write"
          /\ last'.lock = "write" =>
                \E t \in AllThreads :
                    /\ lk[t].op = last'.op /\ lk[t].mode = "write"
                    /\ \A u \in AllThreads \ {t} : lk[u].mode = "none"
          /\ (handlers' # handlers \/ vg_handlers' # vg_handlers) =>
                last'.lock = "write"
          /\ last'.op \in {"annot_register_call", "annot_register_return",
                           "event_module_unload"} => last'.lock = "write"]_vars

\* annot_match has traversed a chain while both threads hold the lock in
\* read mode, the other one for a Valgrind request.
C22_Witness ==
    /\ last.op = "annot_match" /\ last.lock = "read" /\ Len(last.ret) > 0
    /\ \E t \in AllThreads : lk[t].op = "annot_match"
    /\ \E t \in AllThreads : lk[t].op = "handle_vg_annotation"
    /\ vg_handlers[0] # NULL

C24_FailedWriteIsFatal ==
    [][\A t \in Threads :
          (tlast'[t] # tlast[t]
             /\ (tlast'[t].short \/ tlast'[t].drain = "fatal_io")) =>
              proc' = "fatal"]_vars

(***************************************************************************)
(* Claims about the module events                                          *)
(***************************************************************************)
\* annot_match of a direct call to f yields one label, whose handler is the
\* return-value handler of f with the value true.
MatchedRunningOnDynamorio(table, f) ==
    annot_match_list(table, [is_call_direct |-> TRUE, target |-> f])
        = <<AnnotationLabel(ReturnHandler(f, 1))>>

\* C25: after the load of a module that exports
\* dynamorio_annotate_running_on_dynamorio at f, no handler being registered
\* at f before, a direct call to f is matched to a return-value handler with
\* the value true, and stays so under every registration, match and unload
\* of another module, until a module whose bounds enclose f is unloaded; a
\* later load registers the handler anew.
C25_LoadRegistersRunningOnDynamorio ==
    [][\A f \in PCs :
          /\ (/\ last'.op = "annot_register_return"
              /\ last'.key = f
              /\ generic_hash_lookup(handlers, KEY(f)) = NULL) =>
                 MatchedRunningOnDynamorio(handlers', f)
          /\ (/\ MatchedRunningOnDynamorio(handlers, f)
              /\ ~(/\ last'.op = "event_module_unload"
                   /\ last'.key[1] < f /\ f < last'.key[2])) =>
                 MatchedRunningOnDynamorio(handlers', f)]_vars

\* A direct call to address 2 has been matched to the handler the load of
\* the module registered there.
C25_Witness ==
    /\ last.op = "annot_match"
    /\ last.key = 2
    /\ last.ret = <<AnnotationLabel(ReturnHandler(2, 1))>>
    /\ first_reg[2] # NULL /\ first_reg[2].type = "ANNOT_HANDLER_RETURN_VALUE"

\* C26: when create_buffer falls back to the reserve buffer, buf_base
\* becomes reserve_buf, and every later drain of the thread without the
\* bypass of the size cap writes nothing to file or pipe, hands nothing off,
\* and resets the reserve buffer: the trace region zeroed, BUF_PTR back at
\* buf_base + header_slot_size.
C26_ReserveBufferNeverWritten ==
    [][\A t \in AllThreads :
          /\ tlast'[t].drain = "fallback" =>
                data'[t].reserve_buf # 0 /\ data'[t].buf_base = data'[t].reserve_buf
          /\ (/\ data[t].reserve_buf # 0
              /\ data[t].buf_base = data[t].reserve_buf
              /\ <<buf_ptr[t], tlast[t]>>' # <<buf_ptr[t], tlast[t]>>
              /\ DrainWithoutBypass(t)) =>
                 /\ tlast'[t].drain = "suppressed"
                 /\ proc' = "running"
                 /\ NothingHandedOff
                 /\ data'[t] = data[t]
                 /\ buf_ptr'[t] = buf_hdr_slots_size
                 /\ TraceRegionZero(t)']_vars

C28_ChunkBoundaryBeforeInstr ==
    [][\A t \in Threads :
          (~dopts.offline /\ dth[t].pend = <<>> /\ dth'[t].pend # <<>>) =>
              \A i \in 2..Len(dth'[t].pend) :
                  /\ Len(dth'[t].pend[i]) >= 2
                  /\ dth'[t].pend[i][2].type = "instr"]_vars

\* A drain split in two chunks, the second with the data entries of the
\* instruction entry it begins with.
C28_Witness ==
    /\ ~dopts.offline
    /\ dth["t1"].stat = "live"
    /\ Len(dth["t1"].pend) = 2
    /\ Len(dth["t1"].pend[2]) >= 3
    /\ dth["t1"].pend[2][2].type = "instr"
    /\ dth["t1"].pend[2][3].type = "data"

C30_CleanCallIffRedzone ==
    [][\A t \in Threads :
          (tlast'[t] # tlast[t] \/ buf_ptr'[t] # buf_ptr[t]) =>
              /\ tlast'[t].chk # "call_trace"
              /\ (/\ tlast'[t].op = "block"
                  /\ tlast'[t].chk \in {"skip", "none"}
                  /\ proc' = "running"
                  /\ status'[t] = "live") => buf_ptr'[t] < trace_buf_size]_vars

\* The number of entries of type ty for the instruction at PC p.
EntriesFor(ty, p) ==
    Cardinality({k \in 1..Len(blk.out) : blk.out[k] = [type |-> ty, pc |-> p]})

C32_StrexWritingBaseInstrumented ==
    \A p \in 1..Len(blk.bb) :
        (blk.bb[p] = "strex_wb" /\ p < blk.i) =>
            /\ blk.strex # p
            /\ EntriesFor("instr", p) = 1
            /\ EntriesFor("memref", p) = 1

\* The entries that represent the queued instructions: a full instr entry
\* for the first and a bundle entry, or with physical addresses a full instr
\* entry, for each of the others.
DelayEntries(delay) ==
    [j \in 1..Len(delay) |->
        [type |-> IF j = 1 \/ blk.phys THEN "instr" ELSE "bundle",
         pc |-> delay[j]]]

\* C33: each instruction placed in the delay queue is represented exactly
\* once in the emitted entries, at the next instruction that is not delayed:
\* no entry while it is queued; the handler of every later instruction
\* either queues that instruction too or empties the queue, and then emits
\* a full instr entry for the first queued instruction and a bundle entry
\* (with physical addresses a full instr entry) for each of the others,
\* ahead of its other entries; the queue never holds more than
\* MAX_NUM_DELAY_INSTRS instructions.
C33_DelayedInstrsEmittedOnce ==
    /\ [](/\ Len(blk.delay) <= MAX_NUM_DELAY_INSTRS
          /\ \A j \in 1..Len(blk.delay), k \in 1..Len(blk.out) :
                blk.out[k].pc # blk.delay[j])
    /\ [][blk.delay # <<>> =>
             \/ blk'.delay = Append(blk.delay, blk.i)
             \/ /\ blk'.delay = <<>>
                /\ Len(blk'.out) >= Len(blk.out) + Len(blk.delay)
                /\ SubSeq(blk'.out, 1, Len(blk.out) + Len(blk.delay))
                      = blk.out \o DelayEntries(blk.delay)
                /\ \A k \in (Len(blk.out) + Len(blk.delay) + 1)..Len(blk'.out),
                      j \in 1..Len(blk.delay) :
                         blk'.out[k].pc # blk.delay[j]]_vars

\* C34: when the instrument callback has run for every instruction of a
\* block, nothing is left pending: the delay queue is empty and ud.strex is
\* unset, whatever kind of instruction the block ends with.
C34_NothingPendingAtBlockEnd ==
    blk.i > Len(blk.bb) => (blk.delay = <<>> /\ blk.strex = 0)

\* C35: with instruction-cache filtering the filter lookup for an
\* instruction is omitted only when the previously instrumented instruction
\* of the same block has its PC on the same cache line (equal PC >>
\* log2(line_size)): the first instruction of a block and an instruction on
\* another line than the previous one get the lookup, after which the slot
\* of the line holds the line, and an entry was produced unless it already
\* did.
C35_ICacheSkipOnlyOnSameLine ==
    [][(l0' # l0 /\ l0'.last.cache = "icache") =>
          LET line == l0'.last.line
              idx == line % (l0.mask.icache + 1)
          IN  (\/ l0.last_app_pc = 0
               \/ l0.last_app_pc \div (2 ^ line_bits) # line) =>
                  /\ l0'.cache.icache[idx] = line
                  /\ l0'.last.entry <=> l0.cache.icache[idx] # line]_vars

\* C36: every buffer that a drain writes out or hands off starts at slot 0
\* with a header entry of the emitting thread: the thread header written in
\* advance on the first drain of an offline thread (also the first after
\* fork init), a unit header written by the drain in every other case.
C36_DrainedBufferStartsWithHeader ==
    [][\A t \in Threads :
          (/\ tlast'[t] # tlast[t]
           /\ tlast'[t].drain \in {"written", "handoff", "fallback"}) =>
              tlast'[t].hdr]_vars

\* C37: the global options a drain reads, max_trace_size in particular, are
\* never modified after process init, so that no event in one thread (a
\* failed buffer allocation, say) changes whether the drains of another
\* thread write their data.
C37_OptionsImmutableAfterInit ==
    [][/\ op_max_trace_size' = op_max_trace_size
       /\ \A t \in AllThreads :
             (data'[t] = data[t] /\ tlast'[t] = tlast[t]) =>
                 (OverCap(t)' <=> OverCap(t))]_vars

\* C38: event_thread_exit frees each buffer allocation the thread holds
\* exactly once: when it frees buf_base and reserve_buf the two are not the
\* same allocation, also after a fallback to the reserve buffer.
C38_ExitFreesEachBufferOnce ==
    \A t \in Threads :
        (status[t] = "exited" /\ data[t].reserve_buf # 0) =>
            data[t].buf_base # data[t].reserve_buf

(***************************************************************************)
(* Claims about the lifetime of the handlers behind the markers            *)
(***************************************************************************)
\* C39: while a thread holds the markers annot_match gave it for the call
\* target, the table still has the chain of handlers the markers' notes
\* point to: no sweep of another thread has removed and freed it.
C39_MarkerHandlerNotFreed ==
    \A t \in AllThreads :
        lk[t].op = "marker" => generic_hash_lookup(handlers, 1) # NULL

(***************************************************************************)
(* Claims about the arrays of the level-0 caches                           *)
(***************************************************************************)
\* C40: whatever the sizes of the two caches, event_thread_exit frees the
\* array of the data cache and the array of the instruction cache each with
\* the byte size init_thread_in_process allocated it with.
C40_CacheArraysFreedWithAllocSize ==
    \A c \in {"dcache", "icache"} :
        l0.freed[c] # 0 => l0.freed[c] = l0.alloc[c]

====
